---- MODULE Spec2Model ----
(***************************************************************************)
(* static/js/role_organisation.js and the quiz game of unnamed/part_000.    *)
(* The second IIFE of role_organisation.js (lines 259-775) is the           *)
(* people-ranking table: a remote list paged into the client, rendered in   *)
(* simple mode (whole prefix, load-more near the bottom) or in virtual      *)
(* mode (window of VISIBLE_ROWS rows plus spacers).  The first IIFE (lines  *)
(* 1-257) is the role-organisation source list: the roles of a payload,     *)
(* filtered by a debounced search and appended to the list in chunks, one   *)
(* chunk per animation frame, with the form that consolidates the roles     *)
(* selected into a target role.  The game script is the quiz: questions     *)
(* generated at random from the rankings by role, a score and three modes.  *)
(*                                                                         *)
(* One TLA+ step is one task of the browser's event loop: a user event, a   *)
(* timer, an animation frame or the settlement of a network request,        *)
(* together with every promise continuation (microtask) it runs.  Each      *)
(* JavaScript function is an operator from a state record to a state        *)
(* record; an action applies the handler to Cur and commits the result.     *)
(***************************************************************************)
EXTENDS Integers, Sequences, FiniteSets, TLC

VARIABLES
  simpleScroll,      \* window.CAMDRAM_SIMPLE_SCROLL
  allLoaded,         \* loaded prefix, a sequence of records
  totalCount,
  currentSearch,     \* sequence of characters
  currentActiveOnly,
  sortCol,
  sortDir,
  fetchInFlight,
  searchDebounce,    \* TRUE while the debounce timer is pending
  searchElapsed,     \* ms since the last edit of searchInput, capped
  searchValue,       \* searchInput.value, a sequence of characters
  activeChecked,     \* activeOnlyInput.checked
  theadHeight,
  lastVisibleStart,
  lastVisibleEnd,
  rafId,             \* TRUE while rafId holds a request's handle
  rafQueue,          \* number of onScroll callbacks waiting for the next frame
  scrollTop,         \* peopleScroll.scrollTop
  innerHeight,       \* peopleScrollInner.style.height, in px
  loadingShown,      \* peopleLoading.style.display = "block"
  rows,              \* the tr.virtual-row elements of peopleTbody, in order
  spacerHeight,      \* peopleSpacer.style.height, in px
  spacerShown,       \* peopleSpacer.style.display = "table-row"
  bottomSpacer,      \* #people-spacer-bottom: [exists, height, shown]
  countText,         \* what updateCounts wrote: <<total, matching>>
  inflight,          \* requests sent and not settled, with their continuation
  roleOptions,       \* role organisation: the roles of the payload, by name
  query,             \* role organisation: the search text applied
  renderToken,
  selected,          \* role organisation: the set of selected role names
  roSearchDebounce,  \* role organisation's searchDebounce timer is pending
  roSearchValue,     \* #role-org-search value, a sequence of characters
  roSearchElapsed,   \* ms since the last edit of #role-org-search, capped
  sourceList,        \* the li elements of #role-org-source-list, by role name
  selectedMeta,      \* what updateSelectedMeta wrote: <<selected, showing, of>>
  feedback,          \* feedbackEl.textContent
  frames,            \* appendChunk callbacks waiting for the next animation frame
  bootstrapPending,  \* the fetchPayload request is not settled
  consolidations,    \* role organisation: the groups of the payload, as rendered
  targetValue,       \* targetInput.value, a sequence of characters
  consolidateDisabled, \* consolidateBtn.disabled
  roRequests,        \* update and delete requests sent and not settled
  serverGroups,      \* the consolidations the server holds
  gameLoaded,        \* quiz: the script of the game page has run
  score,
  attempts,
  currentMode,
  question,          \* quiz: the question displayed, or Null
  optionsLocked,     \* quiz: the option buttons are disabled
  nextHidden,        \* quiz: nextBtn.hidden
  userEvents,        \* number of user events so far (bounds the exploration)
  faults             \* number of failed or malformed responses so far

\* The people table's variables, the source list's, and the two clocks.
tableVars == <<simpleScroll, allLoaded, totalCount, currentSearch, currentActiveOnly,
               sortCol, sortDir, fetchInFlight, searchDebounce, searchValue,
               activeChecked, theadHeight, lastVisibleStart, lastVisibleEnd, rafId,
               rafQueue, scrollTop, innerHeight, loadingShown, rows, spacerHeight, spacerShown,
               bottomSpacer, countText, inflight>>

listVars == <<roleOptions, query, renderToken, selected, roSearchDebounce, roSearchValue,
              sourceList, selectedMeta, feedback, frames, bootstrapPending,
              consolidations, targetValue, consolidateDisabled, roRequests,
              serverGroups>>

quizVars == <<gameLoaded, score, attempts, currentMode, question, optionsLocked,
              nextHidden>>

vars == <<tableVars, searchElapsed, listVars, roSearchElapsed, quizVars, userEvents,
          faults>>

(***************************************************************************)
(* Program constants.                                                      *)
(***************************************************************************)
ROW_HEIGHT == 40
VISIBLE_ROWS == 60
PER_PAGE == 100
SEARCH_DEBOUNCE_MS == 180
thresholdPx == 320
RO_SEARCH_DEBOUNCE_MS == 120     \* SEARCH_DEBOUNCE_MS of the first IIFE
SOURCE_RENDER_CHUNK == 220

(***************************************************************************)
(* Bounds of the model: the host page's layout and the server's data.      *)
(***************************************************************************)
HeaderHeight == 36      \* thead.offsetHeight
ClientHeight == 700     \* peopleScroll.clientHeight (70vh)
TotalAll == 250         \* people matching the empty search
TotalActive == 120      \* active people matching the empty search
TotalBob == 30          \* people matching "bob"
MaxUserEvents == 2      \* user events explored
MaxFaults == 1          \* failed or malformed responses explored
TickMs == 60            \* granularity of the clocks, in ms
RoleCount == 450        \* roles in the bootstrap payload
MaxAttempts == 3        \* guesses explored before the score is reset
MaxFormEvents == 3      \* user events explored on the consolidation form

Min(a, b) == IF a <= b THEN a ELSE b
Max(a, b) == IF a >= b THEN a ELSE b

\* The clocks stop at the longer of the two quiet windows.
ElapsedCap == Max(SEARCH_DEBOUNCE_MS, RO_SEARCH_DEBOUNCE_MS)

(***************************************************************************)
(* The text input and String.prototype.trim.                               *)
(***************************************************************************)
Bob == <<"b", "o", "b">>
InputValues == { <<>>, Bob, <<" ">> \o Bob \o <<" ">> }

RECURSIVE TrimLeft(_)
TrimLeft(s) == IF s # <<>> /\ Head(s) = " " THEN TrimLeft(Tail(s)) ELSE s

RECURSIVE TrimRight(_)
TrimRight(s) ==
  IF s # <<>> /\ s[Len(s)] = " " THEN TrimRight(SubSeq(s, 1, Len(s) - 1)) ELSE s

Trim(s) == TrimRight(TrimLeft(s))

(***************************************************************************)
(* The table's sortable columns and their data-type attribute.             *)
(***************************************************************************)
Columns == {"count", "name"}
ColumnType(c) == IF c = "name" THEN "string" ELSE "number"

(***************************************************************************)
(* RemoteDataSource: the rankings endpoint.  For a fixed query it returns   *)
(* consistent pages: page p holds the records (p-1)*per_page+1 .. p*per_page*)
(* of the query's ordered result, and total is the size of that result.     *)
(* A record is identified by the query it answers and its rank in it.       *)
(***************************************************************************)
QueryOf(r) == [search |-> r.search, active |-> r.active, col |-> r.col, dir |-> r.dir]

QueryId(q) ==
  1 + (IF q.search = <<>> THEN 0 ELSE 1) + (IF q.active THEN 2 ELSE 0)
    + (IF q.col = "count" THEN 0 ELSE 4) + (IF q.dir = "desc" THEN 0 ELSE 8)

ServerTotal(q) ==
  IF q.search = <<>>
  THEN IF q.active THEN TotalActive ELSE TotalAll
  ELSE IF q.search = Bob
       THEN IF q.active THEN 0 ELSE TotalBob
       ELSE 0

ServerRecord(q, i) == QueryId(q) * 1000 + i

\* The identity key of a record: the ascending order of a query is its
\* descending order reversed, so the record at rank i of one is the person
\* at rank total - i + 1 of the other.  People of queries that differ in
\* more than the direction are kept apart.
PersonOf(rec) ==
  LET k     == (rec \div 1000) - 1
      rank  == rec % 1000
      asc   == k \div 8 = 1
      total == ServerTotal([search |-> IF k % 2 = 1 THEN Bob ELSE <<>>,
                            active |-> (k \div 2) % 2 = 1])
  IN  ((rec \div 1000) - (IF asc THEN 8 ELSE 0)) * 1000
        + (IF asc THEN total - rank + 1 ELSE rank)

ServerPage(q, page, perPage) ==
  LET first == (page - 1) * perPage + 1
      last  == Min(page * perPage, ServerTotal(q))
  IN  [k \in 1..Max(0, last - first + 1) |-> ServerRecord(q, first + k - 1)]

\* The bodies a settled request can carry: the well-formed one, bodies that
\* lack the people list and/or the total, and the JSON value null.
BodyKinds == {"ok", "noPeople", "noTotal", "neither", "null"}


(***************************************************************************)
(* The state as one record, so that a handler is a composition of          *)
(* operators, and the commit of a handler's result.                        *)
(***************************************************************************)
Cur ==
  [simpleScroll |-> simpleScroll, allLoaded |-> allLoaded, totalCount |-> totalCount,
   currentSearch |-> currentSearch, currentActiveOnly |-> currentActiveOnly,
   sortCol |-> sortCol, sortDir |-> sortDir, fetchInFlight |-> fetchInFlight,
   searchDebounce |-> searchDebounce, searchValue |-> searchValue,
   searchElapsed |-> searchElapsed,
   activeChecked |-> activeChecked, theadHeight |-> theadHeight,
   lastVisibleStart |-> lastVisibleStart, lastVisibleEnd |-> lastVisibleEnd,
   rafId |-> rafId, rafQueue |-> rafQueue, scrollTop |-> scrollTop, innerHeight |-> innerHeight,
   loadingShown |-> loadingShown, rows |-> rows, spacerHeight |-> spacerHeight,
   spacerShown |-> spacerShown, bottomSpacer |-> bottomSpacer,
   countText |-> countText, inflight |-> inflight]

Commit(s) ==
  /\ simpleScroll' = s.simpleScroll
  /\ allLoaded' = s.allLoaded
  /\ totalCount' = s.totalCount
  /\ currentSearch' = s.currentSearch
  /\ currentActiveOnly' = s.currentActiveOnly
  /\ sortCol' = s.sortCol
  /\ sortDir' = s.sortDir
  /\ fetchInFlight' = s.fetchInFlight
  /\ searchDebounce' = s.searchDebounce
  /\ searchValue' = s.searchValue
  /\ searchElapsed' = s.searchElapsed
  /\ activeChecked' = s.activeChecked
  /\ theadHeight' = s.theadHeight
  /\ lastVisibleStart' = s.lastVisibleStart
  /\ lastVisibleEnd' = s.lastVisibleEnd
  /\ rafId' = s.rafId
  /\ rafQueue' = s.rafQueue
  /\ scrollTop' = s.scrollTop
  /\ innerHeight' = s.innerHeight
  /\ loadingShown' = s.loadingShown
  /\ rows' = s.rows
  /\ spacerHeight' = s.spacerHeight
  /\ spacerShown' = s.spacerShown
  /\ bottomSpacer' = s.bottomSpacer
  /\ countText' = s.countText
  /\ inflight' = s.inflight
  /\ UNCHANGED <<listVars, roSearchElapsed, quizVars>>

\* The continuation a caller chains on the promise fetchPage returns.
Cont(kind) ==
  [kind |-> kind, visibleStart |-> 0, visibleEnd |-> 0,
   rangeUnchanged |-> FALSE, bottomHeight |-> 0]

\* peopleScroll.scrollHeight: the scroll container holds peopleScrollInner.
ScrollHeight(s) == Max(ClientHeight, s.innerHeight)
MaxScrollTop(s) == ScrollHeight(s) - ClientHeight

(***************************************************************************)
(* fetchPage, lines 343-354: the part that runs at the call.  When a        *)
(* request is outstanding the call sends nothing and returns a resolved     *)
(* promise (FetchResolved); otherwise it sends one request.                 *)
(***************************************************************************)
FetchResolved(s) == s.fetchInFlight

\* fetchPage without the guard of line 344.
fetchPage_NoGuard(s, page, search, append, cont) ==
  [s EXCEPT
     !.fetchInFlight = TRUE,
     !.loadingShown = IF ~append THEN TRUE ELSE @,
     !.inflight = Append(@,
        [page |-> page, perPage |-> PER_PAGE, search |-> search,
         active |-> s.currentActiveOnly, col |-> s.sortCol, dir |-> s.sortDir,
         append |-> append, cont |-> cont])]

fetchPage(s, page, search, append, cont) ==
  IF s.fetchInFlight
  THEN s
  ELSE [s EXCEPT
          !.fetchInFlight = TRUE,
          !.loadingShown = IF ~append THEN TRUE ELSE @,
          !.inflight = Append(@,
             [page |-> page, perPage |-> PER_PAGE, search |-> search,
              active |-> s.currentActiveOnly, col |-> s.sortCol, dir |-> s.sortDir,
              append |-> append, cont |-> cont])]

(***************************************************************************)
(* ensureDataForRange, lines 381-387.                                       *)
(***************************************************************************)
\* EnsureCovered asking for the whole list instead of the range's end.
EnsureCovered_WholeList(s, start, end) ==
  LET needEnd == s.totalCount
      loaded  == Len(s.allLoaded)
  IN  needEnd <= loaded \/ s.totalCount = 0

EnsureCovered(s, start, end) ==
  LET needEnd == Min(end + 1, s.totalCount)
      loaded  == Len(s.allLoaded)
  IN  needEnd <= loaded \/ s.totalCount = 0

EnsureResolved(s, start, end) == EnsureCovered(s, start, end) \/ FetchResolved(s)

\* ensureDataForRange with the next page computed one too far.
ensureDataForRange_SkipPage(s, start, end, cont) ==
  IF EnsureCovered(s, start, end)
  THEN s
  ELSE LET nextPage == (Len(s.allLoaded) \div PER_PAGE) + 2
       IN  fetchPage(s, nextPage, s.currentSearch, TRUE, cont)

ensureDataForRange(s, start, end, cont) ==
  IF EnsureCovered(s, start, end)
  THEN s
  ELSE LET nextPage == (Len(s.allLoaded) \div PER_PAGE) + 1
       IN  fetchPage(s, nextPage, s.currentSearch, TRUE, cont)

(***************************************************************************)
(* renderVirtual, lines 389-441.  Window is the geometry of lines 392-400;  *)
(* VirtualRows is the then-callback of lines 410-440, which runs with the   *)
(* window captured at the call.                                             *)
(***************************************************************************)
\* Window with the top spacer taken from the scroll offset, not the row.
Window_TopFromScroll(scroll, thead, total) ==
  LET bodyScrollTop == Max(0, scroll - thead)
      start0 == Max(0, bodyScrollTop \div ROW_HEIGHT)
      end0   == Min(total, start0 + VISIBLE_ROWS)
      start1 == IF start0 >= total THEN Max(0, total - VISIBLE_ROWS) ELSE start0
      end1   == IF end0 <= start1 THEN Min(total, start1 + VISIBLE_ROWS) ELSE end0
  IN  [visibleStart |-> start1, visibleEnd |-> end1,
       topHeight |-> Min(bodyScrollTop, start1 * ROW_HEIGHT + ROW_HEIGHT - 1),
       bottomHeight |-> Max(0, (total - end1) * ROW_HEIGHT)]

\* Window without the clamp of lines 397-398.
Window_NoClamp(scroll, thead, total) ==
  LET bodyScrollTop == Max(0, scroll - thead)
      start0 == Max(0, bodyScrollTop \div ROW_HEIGHT)
      end0   == Min(total, start0 + VISIBLE_ROWS)
  IN  [visibleStart |-> start0, visibleEnd |-> end0,
       topHeight |-> start0 * ROW_HEIGHT,
       bottomHeight |-> Max(0, (total - end0) * ROW_HEIGHT)]

Window(scroll, thead, total) ==
  LET bodyScrollTop == Max(0, scroll - thead)
      start0 == Max(0, bodyScrollTop \div ROW_HEIGHT)
      end0   == Min(total, start0 + VISIBLE_ROWS)
      start1 == IF start0 >= total THEN Max(0, total - VISIBLE_ROWS) ELSE start0
      end1   == IF end0 <= start1 THEN Min(total, start1 + VISIBLE_ROWS) ELSE end0
  IN  [visibleStart |-> start1, visibleEnd |-> end1,
       topHeight |-> start1 * ROW_HEIGHT,
       bottomHeight |-> Max(0, (total - end1) * ROW_HEIGHT)]

\* VirtualRows without the return of line 412.
VirtualRows_NoSafety(s, c) ==
  LET rowCount == Min(c.visibleEnd - c.visibleStart, Len(s.allLoaded) - c.visibleStart)
      last     == Min(c.visibleEnd, Len(s.allLoaded))
  IN  IF c.rangeUnchanged /\ rowCount > 0 /\ Len(s.rows) = rowCount THEN s
      ELSE [s EXCEPT
              !.rows = IF last > c.visibleStart
                       THEN SubSeq(s.allLoaded, c.visibleStart + 1, last)
                       ELSE <<>>,
              !.bottomSpacer =
                 IF c.bottomHeight > 0
                 THEN [exists |-> TRUE, height |-> c.bottomHeight, shown |-> TRUE]
                 ELSE IF @.exists THEN [@ EXCEPT !.shown = FALSE] ELSE @]

VirtualRows(s, c) ==
  LET rowCount == Min(c.visibleEnd - c.visibleStart, Len(s.allLoaded) - c.visibleStart)
      last     == Min(c.visibleEnd, Len(s.allLoaded))
  IN  IF rowCount <= 0 /\ s.totalCount > 0 THEN s
      ELSE IF c.rangeUnchanged /\ rowCount > 0 /\ Len(s.rows) = rowCount THEN s
      ELSE [s EXCEPT
              !.rows = IF last > c.visibleStart
                       THEN SubSeq(s.allLoaded, c.visibleStart + 1, last)
                       ELSE <<>>,
              !.bottomSpacer =
                 IF c.bottomHeight > 0
                 THEN [exists |-> TRUE, height |-> c.bottomHeight, shown |-> TRUE]
                 ELSE IF @.exists THEN [@ EXCEPT !.shown = FALSE] ELSE @]

renderVirtual(s) ==
  IF s.totalCount <= 0 THEN s
  ELSE
    LET thead == IF s.theadHeight = 0 THEN HeaderHeight ELSE s.theadHeight
        w  == Window(s.scrollTop, thead, s.totalCount)
        c  == [kind |-> "virtual",
               visibleStart |-> w.visibleStart, visibleEnd |-> w.visibleEnd,
               rangeUnchanged |-> (s.lastVisibleStart = w.visibleStart
                                   /\ s.lastVisibleEnd = w.visibleEnd),
               bottomHeight |-> w.bottomHeight]
        s1 == [s EXCEPT !.theadHeight = thead,
                        !.spacerHeight = w.topHeight,
                        !.spacerShown = (w.topHeight > 0),
                        !.lastVisibleStart = w.visibleStart,
                        !.lastVisibleEnd = w.visibleEnd]
    IN  IF EnsureResolved(s1, w.visibleStart, w.visibleEnd)
        THEN VirtualRows(ensureDataForRange(s1, w.visibleStart, w.visibleEnd, c), c)
        ELSE ensureDataForRange(s1, w.visibleStart, w.visibleEnd, c)

\* updateCounts, lines 443-446.
updateCounts(s) ==
  [s EXCEPT !.countText = <<s.totalCount, s.currentSearch # <<>> >>]

(***************************************************************************)
(* maybeLoadMoreSimple, lines 467-478; its then-callback calls it again at  *)
(* the settlement (continuation "loadMore").                                *)
(***************************************************************************)
maybeLoadMoreSimple_NoTotalCheck(s) ==
  IF s.fetchInFlight THEN s
  ELSE IF ~(s.scrollTop + ClientHeight >= ScrollHeight(s) - thresholdPx) THEN s
  ELSE LET nextPage == (Len(s.allLoaded) \div PER_PAGE) + 1
       IN  fetchPage(s, nextPage, s.currentSearch, TRUE, Cont("loadMore"))

maybeLoadMoreSimple(s) ==
  IF s.fetchInFlight THEN s
  ELSE IF Len(s.allLoaded) >= s.totalCount THEN s
  ELSE IF ~(s.scrollTop + ClientHeight >= ScrollHeight(s) - thresholdPx) THEN s
  ELSE LET nextPage == (Len(s.allLoaded) \div PER_PAGE) + 1
       IN  fetchPage(s, nextPage, s.currentSearch, TRUE, Cont("loadMore"))

\* window.CAMDRAM_renderSimple, lines 485-500.
renderSimple(s) ==
  [s EXCEPT !.rows = s.allLoaded,
            !.spacerHeight = 0,
            !.spacerShown = FALSE,
            !.bottomSpacer = [exists |-> FALSE, height |-> 0, shown |-> FALSE],
            !.theadHeight = HeaderHeight,
            !.innerHeight = HeaderHeight + Len(s.allLoaded) * ROW_HEIGHT]

(***************************************************************************)
(* reloadPeopleAndResetScroll, lines 456-465, and its then-callback.        *)
(***************************************************************************)
ReloadThen(s) ==
  LET s1 == [s EXCEPT !.scrollTop = 0]
  IN  IF s1.simpleScroll THEN maybeLoadMoreSimple(s1) ELSE renderVirtual(s1)

reloadPeopleAndResetScroll(s) ==
  LET s1 == fetchPage(s, 1, s.currentSearch, FALSE, Cont("reload"))
  IN  IF FetchResolved(s) THEN ReloadThen(s1) ELSE s1

\* The callback chained on a settled fetchPage promise by its caller.
RunCont(s, c) ==
  CASE c.kind = "initial"  -> IF s.simpleScroll THEN maybeLoadMoreSimple(s) ELSE s
    [] c.kind = "reload"   -> ReloadThen(s)
    [] c.kind = "loadMore" -> maybeLoadMoreSimple(s)
    [] c.kind = "virtual"  -> VirtualRows(s, c)
    [] OTHER               -> s


(***************************************************************************)
(* The callbacks of fetchPage's request, lines 355-378.  ResponseThen is    *)
(* the fulfilment callback for a parsed body of the given kind; a body of   *)
(* null makes line 358 throw after line 357 has run, which the catch        *)
(* callback handles; FetchCatch is the catch callback.                      *)
(***************************************************************************)
FetchCatch_KeepsFlag(s) ==
  [s EXCEPT !.loadingShown = FALSE]

FetchCatch(s) ==
  [s EXCEPT !.fetchInFlight = FALSE, !.loadingShown = FALSE]

ResponseThen_NoRerender(s, r, kind) ==
  LET base   == IF r.append THEN s.allLoaded ELSE <<>>
      people == IF kind \in {"ok", "noTotal"}
                THEN ServerPage(QueryOf(r), r.page, r.perPage) ELSE <<>>
      all    == base \o people
      total  == IF kind \in {"ok", "noPeople"} THEN ServerTotal(QueryOf(r)) ELSE Len(all)
      s1 == [s EXCEPT
               !.allLoaded = all,
               !.totalCount = total,
               !.theadHeight = IF total > 0 THEN HeaderHeight ELSE @,
               !.innerHeight = IF total > 0 THEN HeaderHeight + total * ROW_HEIGHT ELSE @,
               !.fetchInFlight = FALSE,
               !.loadingShown = FALSE,
               !.lastVisibleStart = -1,
               !.lastVisibleEnd = -1]
  IN  IF kind = "null"
      THEN FetchCatch([s EXCEPT !.allLoaded = base])
      ELSE updateCounts(s1)

ResponseThen(s, r, kind) ==
  LET base   == IF r.append THEN s.allLoaded ELSE <<>>
      people == IF kind \in {"ok", "noTotal"}
                THEN ServerPage(QueryOf(r), r.page, r.perPage) ELSE <<>>
      all    == base \o people
      total  == IF kind \in {"ok", "noPeople"} THEN ServerTotal(QueryOf(r)) ELSE Len(all)
      s1 == [s EXCEPT
               !.allLoaded = all,
               !.totalCount = total,
               !.theadHeight = IF total > 0 THEN HeaderHeight ELSE @,
               !.innerHeight = IF total > 0 THEN HeaderHeight + total * ROW_HEIGHT ELSE @,
               !.fetchInFlight = FALSE,
               !.loadingShown = FALSE,
               !.lastVisibleStart = -1,
               !.lastVisibleEnd = -1]
      s2 == IF s1.simpleScroll THEN renderSimple(s1) ELSE renderVirtual(s1)
  IN  IF kind = "null"
      THEN FetchCatch([s EXCEPT !.allLoaded = base])
      ELSE updateCounts(s2)

RemoveAt(seq, i) == SubSeq(seq, 1, i - 1) \o SubSeq(seq, i + 1, Len(seq))

(***************************************************************************)
(* The role-organisation source list, lines 1-257.  A role is modelled by   *)
(* its name; an li of sourceList by the role it shows, the data-role of its  *)
(* checkbox and the state of the checkbox.  renderConsolidations shows the  *)
(* groups of consolidations, each with its remove buttons: the variable     *)
(* consolidations stands for groupsEl.                                      *)
(***************************************************************************)
RoCur ==
  [roleOptions |-> roleOptions, query |-> query, renderToken |-> renderToken,
   selected |-> selected, roSearchDebounce |-> roSearchDebounce,
   roSearchValue |-> roSearchValue, roSearchElapsed |-> roSearchElapsed,
   sourceList |-> sourceList, selectedMeta |-> selectedMeta,
   feedback |-> feedback, frames |-> frames, bootstrapPending |-> bootstrapPending,
   consolidations |-> consolidations, targetValue |-> targetValue,
   consolidateDisabled |-> consolidateDisabled, roRequests |-> roRequests,
   serverGroups |-> serverGroups]

RoCommit(s) ==
  /\ roleOptions' = s.roleOptions
  /\ query' = s.query
  /\ renderToken' = s.renderToken
  /\ selected' = s.selected
  /\ roSearchDebounce' = s.roSearchDebounce
  /\ roSearchValue' = s.roSearchValue
  /\ roSearchElapsed' = s.roSearchElapsed
  /\ sourceList' = s.sourceList
  /\ selectedMeta' = s.selectedMeta
  /\ feedback' = s.feedback
  /\ frames' = s.frames
  /\ bootstrapPending' = s.bootstrapPending
  /\ consolidations' = s.consolidations
  /\ targetValue' = s.targetValue
  /\ consolidateDisabled' = s.consolidateDisabled
  /\ roRequests' = s.roRequests
  /\ serverGroups' = s.serverGroups
  /\ UNCHANGED <<tableVars, searchElapsed, quizVars>>

\* String.prototype.toLowerCase and indexOf, on sequences of characters.
LowerChar(c) == CASE c = "A" -> "a" [] c = "B" -> "b" [] OTHER -> c

Lower(str) == [i \in 1..Len(str) |-> LowerChar(str[i])]

IndexOf(str, q) ==
  LET hits == {i \in 0..(Len(str) - Len(q)) : SubSeq(str, i + 1, i + Len(q)) = q}
  IN  IF hits = {} THEN -1 ELSE CHOOSE i \in hits : \A j \in hits : i <= j

\* The roles of the payload: role k is named A, a or b followed by k; the
\* name of one role, free text like all of them, ends with a quoted word.
QuotedRole == SOURCE_RENDER_CHUNK

Digits == <<"0", "1", "2", "3", "4", "5", "6", "7", "8", "9">>

RoleName(k) ==
  << (IF k % 3 = 0 THEN "A" ELSE IF k % 3 = 1 THEN "a" ELSE "b"),
     Digits[((k \div 100) % 10) + 1], Digits[((k \div 10) % 10) + 1],
     Digits[(k % 10) + 1] >>
    \o (IF k = QuotedRole THEN <<"\"", "x", "\"">> ELSE <<>>)

AvailableRoles == [k \in 1..RoleCount |-> RoleName(k)]

RoInputValues == { <<>>, <<"a">>, <<"B", " ">> }

\* updateSelectedMeta, lines 38-45.
updateSelectedMeta(s, filteredCount) ==
  [s EXCEPT !.selectedMeta =
     IF filteredCount >= 0
     THEN <<Cardinality(s.selected), filteredCount, Len(s.roleOptions)>>
     ELSE <<Cardinality(s.selected)>>]

\* roleMatchesQuery, lines 51-54.
roleMatchesQuery(role, q) ==
  IF q = <<>> THEN TRUE ELSE IndexOf(Lower(role), q) >= 0

\* escapeHtml, lines 29-33: the serialisation of a text node escapes &, <
\* and > and no other character.  An entity is one element of the result.
escapeHtml(str) ==
  [i \in 1..Len(str) |->
     CASE str[i] = "&" -> "&amp;"
       [] str[i] = "<" -> "&lt;"
       [] str[i] = ">" -> "&gt;"
       [] OTHER -> str[i]]

\* The value the HTML parser gives an attribute written as name="html":
\* the text up to the first double quote, with the entities decoded.
AttributeValue(html) ==
  LET quotes == {i \in 1..Len(html) : html[i] = "\""}
      end == IF quotes = {} THEN Len(html)
             ELSE (CHOOSE i \in quotes : \A j \in quotes : i <= j) - 1
  IN  [i \in 1..end |->
         CASE html[i] = "&amp;" -> "&"
           [] html[i] = "&lt;" -> "<"
           [] html[i] = "&gt;" -> ">"
           [] OTHER -> html[i]]

\* createSourceItem, lines 56-67: the li shows the role; its checkbox has
\* the attribute data-role and is checked when the role is selected.
createSourceItem(s, role) ==
  [role |-> role, dataRole |-> AttributeValue(escapeHtml(role)),
   checked |-> role \in s.selected]

\* appendChunk, lines 76-89, called with the closure f of its render:
\* the token, the filtered list and the index to start at.
appendChunk_OneChunk(s, f) ==
  IF f.token # s.renderToken THEN s
  ELSE
  LET endIdx == Min(Len(f.filtered), f.startIdx + SOURCE_RENDER_CHUNK)
      frag == [i \in 1..(endIdx - f.startIdx) |->
                 createSourceItem(s, f.filtered[f.startIdx + i])]
  IN  [s EXCEPT !.sourceList = @ \o frag]

appendChunk_NoToken(s, f) ==
  LET endIdx == Min(Len(f.filtered), f.startIdx + SOURCE_RENDER_CHUNK)
      frag == [i \in 1..(endIdx - f.startIdx) |->
                 createSourceItem(s, f.filtered[f.startIdx + i])]
      s1 == [s EXCEPT !.sourceList = @ \o frag]
  IN  IF endIdx < Len(f.filtered)
      THEN [s1 EXCEPT !.frames = Append(@, [f EXCEPT !.startIdx = endIdx])]
      ELSE s1

appendChunk(s, f) ==
  IF f.token # s.renderToken THEN s
  ELSE
  LET endIdx == Min(Len(f.filtered), f.startIdx + SOURCE_RENDER_CHUNK)
      frag == [i \in 1..(endIdx - f.startIdx) |->
                 createSourceItem(s, f.filtered[f.startIdx + i])]
      s1 == [s EXCEPT !.sourceList = @ \o frag]
  IN  IF endIdx < Len(f.filtered)
      THEN [s1 EXCEPT !.frames = Append(@, [f EXCEPT !.startIdx = endIdx])]
      ELSE s1

\* The list renderSourceList shows for the roles and the search text.
Filtered(roles, text) ==
  LET q == Lower(Trim(text))
  IN  SelectSeq(roles, LAMBDA r : roleMatchesQuery(r, q))

\* renderSourceList, lines 69-92.
renderSourceList(s) ==
  LET filtered == Filtered(s.roleOptions, s.query)
      token == s.renderToken + 1
      s1 == updateSelectedMeta([s EXCEPT !.renderToken = token, !.sourceList = <<>>],
                               Len(filtered))
  IN  appendChunk(s1, [token |-> token, startIdx |-> 0, filtered |-> filtered])

\* applyPayload, lines 141-146; roles is payload.available_roles and groups
\* payload.consolidations, or the empty sequence when that is not an array.
\* renderConsolidations shows a card with its remove buttons for each group.
applyPayload(s, roles, groups) ==
  renderSourceList([s EXCEPT !.roleOptions = roles, !.consolidations = groups])

\* selectedValues, lines 35-37.
selectedValues(s) == SelectSeq(s.roleOptions, LAMBDA r : r \in s.selected)

\* The server: a group maps its source names to its target.  The server
\* holds one group when the page loads, of a source no role has yet.
\* available_roles lists the roles that are not a source of a group.
Group(target, sources) == [target |-> target, sources |-> sources]

InitialGroups == << Group(<<"T">>, << <<"z">> >>) >>

SourcesOf(groups) ==
  UNION {{groups[i].sources[j] : j \in 1..Len(groups[i].sources)} : i \in 1..Len(groups)}

RolesLeft(groups) ==
  LET sources == SourcesOf(groups)
  IN  SelectSeq(AvailableRoles, LAMBDA r : r \notin sources)

\* The groups without the sources named, and without a group left empty.
DropSources(groups, names) ==
  LET kept == [i \in 1..Len(groups) |->
                 Group(groups[i].target,
                       SelectSeq(groups[i].sources, LAMBDA x : x \notin names))]
  IN  SelectSeq(kept, LAMBDA g : g.sources # <<>>)

\* The server maps the sources to the target (updateUrl).
ServerUpdate(groups, target, sources) ==
  LET names == {sources[i] : i \in 1..Len(sources)}
      rest == DropSources(groups, names)
      at == {i \in 1..Len(rest) : rest[i].target = target}
  IN  IF at = {} THEN Append(rest, Group(target, sources))
      ELSE [i \in 1..Len(rest) |->
              IF i \in at THEN Group(target, rest[i].sources \o sources) ELSE rest[i]]

\* The server removes the mapping of a source, or every mapping to a
\* target (deleteUrl); body is <<"sourceRole", name>> or <<"targetRole", name>>.
ServerDelete(groups, body) ==
  IF body[1] = "sourceRole" THEN DropSources(groups, {body[2]})
  ELSE SelectSeq(groups, LAMBDA g : g.target # body[2])

\* How a request ends: with a payload whose ok is true, with one whose ok
\* is false, or with a network error or a body that is not JSON.
Outcomes == {"ok", "error", "fail"}

\* A request sent: the server acts on it when it is to succeed, and the
\* payload of its response shows the server's groups of that moment.
SendRequest(s, kind, outcome, server) ==
  LET groups == IF outcome = "ok" THEN server ELSE s.serverGroups
  IN  [s EXCEPT !.serverGroups = groups,
                !.roRequests = Append(@, [kind |-> kind, outcome |-> outcome,
                                          groups |-> groups])]

\* consolidate leaving the button enabled.
consolidate_KeepsEnabled(s, outcome) ==
  LET sourceRoles == selectedValues(s)
      targetRole == Trim(s.targetValue)
  IN  IF sourceRoles = <<>>
      THEN [s EXCEPT !.feedback = "Select at least one source role."]
      ELSE IF targetRole = <<>>
      THEN [s EXCEPT !.feedback = "Enter a target role."]
      ELSE SendRequest(s, "consolidate", outcome,
                       ServerUpdate(s.serverGroups, targetRole, sourceRoles))

\* consolidate, lines 161-180, up to the request.
consolidate(s, outcome) ==
  LET sourceRoles == selectedValues(s)
      targetRole == Trim(s.targetValue)
  IN  IF sourceRoles = <<>>
      THEN [s EXCEPT !.feedback = "Select at least one source role."]
      ELSE IF targetRole = <<>>
      THEN [s EXCEPT !.feedback = "Enter a target role."]
      ELSE SendRequest([s EXCEPT !.consolidateDisabled = TRUE], "consolidate", outcome,
                       ServerUpdate(s.serverGroups, targetRole, sourceRoles))

\* The handlers keeping the selection and the target on success.
consolidateSettled_KeepsSelection(s, r) ==
  LET done == IF r.outcome = "ok"
              THEN [applyPayload(s, RolesLeft(r.groups), r.groups)
                      EXCEPT !.feedback = "Saved consolidation mapping(s)."]
              ELSE [s EXCEPT !.feedback = "Could not save consolidation."]
  IN  [done EXCEPT !.consolidateDisabled = FALSE]

\* The handlers of consolidate's request, lines 181-197, for the request r.
consolidateSettled(s, r) ==
  LET done == IF r.outcome = "ok"
              THEN [applyPayload([s EXCEPT !.selected = {}, !.targetValue = <<>>],
                                 RolesLeft(r.groups), r.groups)
                      EXCEPT !.feedback = "Saved consolidation mapping(s)."]
              ELSE [s EXCEPT !.feedback = "Could not save consolidation."]
  IN  [done EXCEPT !.consolidateDisabled = FALSE]

\* removeMapping, lines 200-205, up to the request.
removeMapping(s, body, outcome) ==
  SendRequest(s, "remove", outcome, ServerDelete(s.serverGroups, body))

\* The handlers of removeMapping's request, lines 206-217.
removeMappingSettled(s, r) ==
  IF r.outcome = "ok"
  THEN [applyPayload(s, RolesLeft(r.groups), r.groups)
          EXCEPT !.feedback = "Removed mapping(s)."]
  ELSE [s EXCEPT !.feedback = "Could not remove mapping."]

\* The callbacks fs of one animation frame, run in the order requested.
RECURSIVE RunFrames(_, _)
RunFrames(s, fs) ==
  IF fs = <<>> THEN s ELSE RunFrames(appendChunk(s, Head(fs)), Tail(fs))

RoBoot ==
  [roleOptions |-> <<>>, query |-> <<>>, renderToken |-> 0, selected |-> {},
   roSearchDebounce |-> FALSE, roSearchValue |-> <<>>, roSearchElapsed |-> ElapsedCap,
   sourceList |-> <<>>, selectedMeta |-> <<>>, feedback |-> "",
   frames |-> <<>>, bootstrapPending |-> TRUE,
   consolidations |-> <<>>, targetValue |-> <<>>, consolidateDisabled |-> FALSE,
   roRequests |-> <<>>, serverGroups |-> InitialGroups]

(***************************************************************************)
(* The quiz game, unnamed/part_000.  window.CAMDRAM_GAME gives the roles    *)
(* (data.roles) and, by role name, the people ranked by the number of times *)
(* they did the role (data.byRole).                                         *)
(***************************************************************************)
GameRoles ==
  << [name |-> "Sound", main_group |-> "Tech"],
     [name |-> "Lights", main_group |-> "Tech"],
     [name |-> "Stage", main_group |-> "Tech"],
     [name |-> "Rigging", main_group |-> "Tech"],
     [name |-> "Props", main_group |-> "Tech"],
     [name |-> "Actor", main_group |-> "Cast"] >>

Person(pid, name, count) == [pid |-> pid, name |-> name, count |-> count]

ByRole ==
  [r \in {"Sound", "Lights", "Stage", "Rigging", "Actor"} |->
     CASE r = "Sound"   -> << Person("p1", "Ann", 5), Person("p2", "Ben", 3),
                              Person("p3", "Cat", 3), Person("p5", "Eve", 0) >>
       [] r = "Lights"  -> << Person("p1", "Ann", 4), Person("p2", "Ben", 4),
                              Person("p3", "Cat", 3) >>
       [] r = "Stage"   -> << Person("p2", "Ben", 6), Person("p1", "Ann", 2),
                              Person("p3", "Cat", 1) >>
       [] r = "Rigging" -> << Person("p1", "Ann", 7), Person("p4", "Dan", 1) >>
       [] OTHER         -> << Person("p1", "Ann", 9), Person("p2", "Ben", 8),
                              Person("p3", "Cat", 7) >>]

TOP_ROLE_LIMIT == 20
MostRoleTries == 200
HigherCountTries == 200
TopRoleTries == 300
MostRolePool == 12
HigherCountPool == 14

Range(seq) == {seq[i] : i \in 1..Len(seq)}

\* techRoleNames, lines 20-26.
techRoleNames ==
  LET tech == SelectSeq(GameRoles, LAMBDA r : r.main_group = "Tech" /\ r.name \in DOMAIN ByRole)
  IN  [i \in 1..Len(tech) |-> tech[i].name]

\* topRoleNames, lines 28-46: the sort orders the roles and the slice keeps
\* the first TOP_ROLE_LIMIT of them.  The data has fewer roles than that, so
\* the slice keeps them all; only membership is used afterwards.
topRoleNames ==
  Range(SubSeq(techRoleNames, 1, Min(Len(techRoleNames), TOP_ROLE_LIMIT)))

\* eligibleRoles, lines 48-51.
eligibleRoles == {r \in topRoleNames : Len(ByRole[r]) >= 3}

\* sampleN, lines 62-71: the shuffle can leave any arrangement, of which the
\* first n items are returned.
sampleN(items, n) ==
  LET k == Min(n, Len(items))
      picks == {f \in [1..k -> 1..Len(items)] : \A i, j \in 1..k : f[i] = f[j] => i = j}
  IN  {[i \in 1..k |-> items[f[i]]] : f \in picks}

\* question = null, and the option ids "pid:" + pid and "role:" + name.
NoQuestion == [mode |-> "null", title |-> "", options |-> <<>>]
PidOption(pid) == <<"pid", pid>>
RoleOption(name) == <<"role", name>>

\* The for loop of a generator: up to limit tries, each of which returns one
\* of the questions or fails; null after limit failures.
TryLoop(questions, canFail, limit) ==
  (IF limit > 0 THEN questions ELSE {})
    \cup (IF limit = 0 \/ canFail THEN {NoQuestion} ELSE {})

\* The first items of a ranking that a generator draws from.
Pool(ranked, size) == SubSeq(ranked, 1, Min(Len(ranked), size))

MaxCount(options) ==
  LET counts == {options[i].count : i \in 1..Len(options)} \cup {-1}
  IN  CHOOSE m \in counts : \A c \in counts : c <= m

PersonOptions(options, winner) ==
  [i \in 1..Len(options) |->
     [id |-> PidOption(options[i].pid), isCorrect |-> options[i].pid = winner.pid]]

\* buildMostRoleQuestion accepting a draw whose highest count is shared.
buildMostRoleQuestion_AllowsTies ==
  LET draws == UNION {{[role |-> r, options |-> o] :
                         o \in sampleN(Pool(ByRole[r], MostRolePool), 3)} :
                      r \in eligibleRoles}
      winners(d) == SelectSeq(d.options, LAMBDA p : p.count = MaxCount(d.options))
      ok(d) == Len(d.options) = 3
  IN  TryLoop({[mode |-> "most-role", title |-> d.role,
                options |-> PersonOptions(d.options, winners(d)[1])] :
                 d \in {x \in draws : ok(x)}},
              eligibleRoles = {} \/ \E d \in draws : ~ok(d),
              MostRoleTries)

\* buildMostRoleQuestion, lines 89-123.  A try draws a role and three of its
\* people; it fails unless exactly one of them has the highest count.
buildMostRoleQuestion ==
  LET draws == UNION {{[role |-> r, options |-> o] :
                         o \in sampleN(Pool(ByRole[r], MostRolePool), 3)} :
                      r \in eligibleRoles}
      winners(d) == SelectSeq(d.options, LAMBDA p : p.count = MaxCount(d.options))
      ok(d) == Len(d.options) = 3 /\ Len(winners(d)) = 1
  IN  TryLoop({[mode |-> "most-role", title |-> d.role,
                options |-> PersonOptions(d.options, winners(d)[1])] :
                 d \in {x \in draws : ok(x)}},
              eligibleRoles = {} \/ \E d \in draws : ~ok(d),
              MostRoleTries)

\* buildHigherCountQuestion, lines 125-152.  A try draws a role and two of
\* its people; it fails when their counts are equal.
buildHigherCountQuestion ==
  LET draws == UNION {{[role |-> r, options |-> o] :
                         o \in sampleN(Pool(ByRole[r], HigherCountPool), 2)} :
                      r \in eligibleRoles}
      ok(d) == Len(d.options) = 2 /\ d.options[1].count # d.options[2].count
      winner(d) == IF d.options[1].count > d.options[2].count
                   THEN d.options[1] ELSE d.options[2]
  IN  TryLoop({[mode |-> "higher-count", title |-> d.role,
                options |-> PersonOptions(d.options, winner(d))] :
                 d \in {x \in draws : ok(x)}},
              eligibleRoles = {} \/ \E d \in draws : ~ok(d),
              HigherCountTries)

\* buildPeopleTechStats, lines 154-170: by pid, the name and the count in
\* each eligible role the person is ranked in.
Entries(r) == {ByRole[r][i] : i \in 1..Len(ByRole[r])}

peopleTechStats ==
  LET pids == UNION {{p.pid : p \in Entries(r)} : r \in eligibleRoles}
  IN  [pid \in pids |->
         [pid |-> pid,
          name |-> CHOOSE n \in UNION {{p.name : p \in {e \in Entries(r) : e.pid = pid}} :
                                        r \in eligibleRoles} : TRUE,
          roleCounts |->
            [r \in {x \in eligibleRoles : \E p \in Entries(x) : p.pid = pid} |->
               (CHOOSE p \in Entries(r) : p.pid = pid).count]]]

SeqOf(S) == CHOOSE s \in [1..Cardinality(S) -> S] : Range(s) = S

\* buildTopRoleQuestion, lines 174-230.  A try draws a person; it fails when
\* the person has fewer than three roles or no single most-done role.  The
\* distractors are two of the person's other roles (lines 195-201 do not
\* run: there are at least two of them).
buildTopRoleQuestion ==
  LET people == {peopleTechStats[pid] : pid \in DOMAIN peopleTechStats}
      roles(person) == DOMAIN person.roleCounts
      top(person) == {r \in roles(person) :
                        \A x \in roles(person) \ {r} :
                          person.roleCounts[r] > person.roleCounts[x]}
      ok(person) == Cardinality(roles(person)) >= 3 /\ top(person) # {}
      correct(person) == CHOOSE r \in top(person) : TRUE
      option(name, isCorrect) == [id |-> RoleOption(name), isCorrect |-> isCorrect]
      questions(person) ==
        UNION {{[mode |-> "top-role", title |-> person.name, options |-> o] :
                  o \in sampleN(<< option(correct(person), TRUE),
                                   option(d[1], FALSE), option(d[2], FALSE) >>, 3)} :
               d \in sampleN(SeqOf(roles(person) \ {correct(person)}), 2)}
  IN  IF people = {} THEN {NoQuestion}
      ELSE TryLoop(UNION {questions(person) : person \in {x \in people : ok(x)}},
                   \E person \in people : ~ok(person),
                   TopRoleTries)

\* buildQuestion, lines 232-236.
buildQuestion(mode) ==
  CASE mode = "higher-count" -> buildHigherCountQuestion
    [] mode = "top-role"     -> buildTopRoleQuestion
    [] OTHER                 -> buildMostRoleQuestion

(***************************************************************************)
(* The quiz's state and handlers.                                           *)
(***************************************************************************)
QCur ==
  [gameLoaded |-> gameLoaded, score |-> score, attempts |-> attempts,
   currentMode |-> currentMode, question |-> question,
   optionsLocked |-> optionsLocked, nextHidden |-> nextHidden]

QCommit(s) ==
  /\ gameLoaded' = s.gameLoaded
  /\ score' = s.score
  /\ attempts' = s.attempts
  /\ currentMode' = s.currentMode
  /\ question' = s.question
  /\ optionsLocked' = s.optionsLocked
  /\ nextHidden' = s.nextHidden
  /\ UNCHANGED <<tableVars, searchElapsed, listVars, roSearchElapsed, userEvents, faults>>

\* Lines 53-56, before the first question is rendered.
QBoot ==
  [gameLoaded |-> FALSE, score |-> 0, attempts |-> 0, currentMode |-> "most-role",
   question |-> NoQuestion, optionsLocked |-> FALSE, nextHidden |-> TRUE]

\* resetScore, lines 83-87.
resetScore(s) == [s EXCEPT !.score = 0, !.attempts = 0]

\* The option handleGuess takes for the correct one, line 248: the first
\* with isCorrect, if any.
CorrectOptions(q) == SelectSeq(q.options, LAMBDA opt : opt.isCorrect)

\* handleGuess scoring every guess.
handleGuess_ScoresAll(s, optionId) ==
  IF s.question = NoQuestion THEN s
  ELSE [s EXCEPT !.attempts = @ + 1,
                 !.score = @ + 1,
                 !.optionsLocked = TRUE,
                 !.nextHidden = FALSE]

\* handleGuess leaving the option buttons enabled.
handleGuess_NoLock(s, optionId) ==
  IF s.question = NoQuestion THEN s
  ELSE LET found   == SelectSeq(s.question.options, LAMBDA opt : opt.isCorrect)
           correct == found # <<>> /\ optionId = found[1].id
       IN  [s EXCEPT !.attempts = @ + 1,
                     !.score = IF correct THEN @ + 1 ELSE @,
                     !.nextHidden = FALSE]

\* handleGuess, lines 244-270, lockOptions included.
handleGuess(s, optionId) ==
  IF s.question = NoQuestion THEN s
  ELSE LET found   == CorrectOptions(s.question)
           correct == found # <<>> /\ optionId = found[1].id
       IN  [s EXCEPT !.attempts = @ + 1,
                     !.score = IF correct THEN @ + 1 ELSE @,
                     !.optionsLocked = TRUE,
                     !.nextHidden = FALSE]

\* renderQuestion, lines 278-308, with q the result of buildQuestion: the
\* buttons of the question replace the old ones and are enabled.
renderQuestion(s, q) ==
  [s EXCEPT !.question = q, !.nextHidden = TRUE, !.optionsLocked = FALSE]

\* The click listener of a mode button, lines 322-333.
modeClick(s, mode, q) ==
  IF mode = s.currentMode THEN s
  ELSE renderQuestion(resetScore([s EXCEPT !.currentMode = mode]), q)

(***************************************************************************)
(* Construction, lines 262-307, 480-505 and 524-526: the state when the     *)
(* script has run, with the first request sent.                             *)
(***************************************************************************)
InitialTotals == {0, TotalAll}       \* data.totalPeople

Boot(simple, total) ==
  [simpleScroll |-> simple, allLoaded |-> <<>>, totalCount |-> total,
   currentSearch |-> <<>>, currentActiveOnly |-> FALSE,
   sortCol |-> "count", sortDir |-> "desc", fetchInFlight |-> FALSE,
   searchDebounce |-> FALSE, searchValue |-> <<>>, searchElapsed |-> ElapsedCap,
   activeChecked |-> FALSE,
   theadHeight |-> 0, lastVisibleStart |-> -1, lastVisibleEnd |-> -1,
   rafId |-> FALSE, rafQueue |-> 0, scrollTop |-> 0, innerHeight |-> 0, loadingShown |-> FALSE,
   rows |-> <<>>, spacerHeight |-> 0, spacerShown |-> FALSE,
   bottomSpacer |-> [exists |-> FALSE, height |-> 0, shown |-> FALSE],
   countText |-> <<total, FALSE>>, inflight |-> <<>>]

Start(simple, total) == fetchPage(Boot(simple, total), 1, <<>>, FALSE, Cont("initial"))

Init ==
  \E simple \in BOOLEAN, total \in InitialTotals :
    LET s == Start(simple, total) IN
      /\ simpleScroll = s.simpleScroll
      /\ allLoaded = s.allLoaded
      /\ totalCount = s.totalCount
      /\ currentSearch = s.currentSearch
      /\ currentActiveOnly = s.currentActiveOnly
      /\ sortCol = s.sortCol
      /\ sortDir = s.sortDir
      /\ fetchInFlight = s.fetchInFlight
      /\ searchDebounce = s.searchDebounce
      /\ searchValue = s.searchValue
      /\ searchElapsed = s.searchElapsed
      /\ activeChecked = s.activeChecked
      /\ theadHeight = s.theadHeight
      /\ lastVisibleStart = s.lastVisibleStart
      /\ lastVisibleEnd = s.lastVisibleEnd
      /\ rafId = s.rafId
      /\ rafQueue = s.rafQueue
      /\ scrollTop = s.scrollTop
      /\ innerHeight = s.innerHeight
      /\ loadingShown = s.loadingShown
      /\ rows = s.rows
      /\ spacerHeight = s.spacerHeight
      /\ spacerShown = s.spacerShown
      /\ bottomSpacer = s.bottomSpacer
      /\ countText = s.countText
      /\ inflight = s.inflight
      /\ roleOptions = RoBoot.roleOptions
      /\ query = RoBoot.query
      /\ renderToken = RoBoot.renderToken
      /\ selected = RoBoot.selected
      /\ roSearchDebounce = RoBoot.roSearchDebounce
      /\ roSearchValue = RoBoot.roSearchValue
      /\ roSearchElapsed = RoBoot.roSearchElapsed
      /\ sourceList = RoBoot.sourceList
      /\ selectedMeta = RoBoot.selectedMeta
      /\ feedback = RoBoot.feedback
      /\ frames = RoBoot.frames
      /\ bootstrapPending = RoBoot.bootstrapPending
      /\ consolidations = RoBoot.consolidations
      /\ targetValue = RoBoot.targetValue
      /\ consolidateDisabled = RoBoot.consolidateDisabled
      /\ roRequests = RoBoot.roRequests
      /\ serverGroups = RoBoot.serverGroups
      /\ gameLoaded = QBoot.gameLoaded
      /\ score = QBoot.score
      /\ attempts = QBoot.attempts
      /\ currentMode = QBoot.currentMode
      /\ question = QBoot.question
      /\ optionsLocked = QBoot.optionsLocked
      /\ nextHidden = QBoot.nextHidden
      /\ userEvents = 0
      /\ faults = 0

(***************************************************************************)
(* Actions: one per event-loop task.                                       *)
(***************************************************************************)
UserEvent == userEvents < MaxUserEvents /\ userEvents' = userEvents + 1 /\ UNCHANGED faults

\* searchInput "input" listener, lines 508-514: restart the debounce timer.
SearchInput(v) ==
  /\ v # searchValue
  /\ UserEvent
  /\ Commit([Cur EXCEPT !.searchValue = v, !.searchDebounce = TRUE,
                        !.searchElapsed = 0])

\* The debounce timer's callback, lines 510-513, once its delay has passed.
SearchTimer ==
  /\ searchDebounce
  /\ searchElapsed >= SEARCH_DEBOUNCE_MS
  /\ UNCHANGED <<userEvents, faults>>
  /\ Commit(reloadPeopleAndResetScroll(
       [Cur EXCEPT !.searchDebounce = FALSE, !.currentSearch = Trim(searchValue)]))

\* activeOnlyInput "change" listener, lines 518-521.
ActiveOnlyChange ==
  /\ UserEvent
  /\ Commit(reloadPeopleAndResetScroll(
       [Cur EXCEPT !.activeChecked = ~activeChecked, !.currentActiveOnly = ~activeChecked]))

\* thead th "click" listener, lines 541-555.
SortClick(clickedCol) ==
  LET s1 == IF clickedCol = sortCol
            THEN [Cur EXCEPT !.sortDir = IF sortDir = "asc" THEN "desc" ELSE "asc"]
            ELSE [Cur EXCEPT !.sortCol = clickedCol,
                             !.sortDir = IF ColumnType(clickedCol) = "string"
                                         THEN "asc" ELSE "desc"]
  IN  UserEvent /\ Commit(reloadPeopleAndResetScroll(s1))

\* The user scrolls the container to offset y: the "scroll" listener is
\* maybeLoadMoreSimple (line 501) or onScroll (lines 448-454, 504).
ScrollOffsets(s) == {0, HeaderHeight + 120 * ROW_HEIGHT, MaxScrollTop(s)}

\* onScroll, lines 448-454: cancel the frame requested, request another.
onScroll_NoCancel(s) ==
  [s EXCEPT !.rafQueue = @ + 1, !.rafId = TRUE]

onScroll(s) ==
  [s EXCEPT !.rafQueue = (IF s.rafId THEN @ - 1 ELSE @) + 1, !.rafId = TRUE]

Scroll(y) ==
  /\ y # scrollTop
  /\ y <= MaxScrollTop(Cur)
  /\ UserEvent
  /\ LET s1 == [Cur EXCEPT !.scrollTop = y]
     IN  Commit(IF simpleScroll THEN maybeLoadMoreSimple(s1) ELSE onScroll(s1))

\* An animation frame runs the n callbacks onScroll requested, lines 450-453.
RECURSIVE RunScrollFrames(_, _)
RunScrollFrames(s, n) ==
  IF n = 0 THEN s
  ELSE RunScrollFrames(renderVirtual([s EXCEPT !.rafId = FALSE]), n - 1)

AnimationFrame ==
  /\ rafQueue > 0
  /\ UNCHANGED <<userEvents, faults>>
  /\ Commit(RunScrollFrames([Cur EXCEPT !.rafQueue = 0], rafQueue))

\* The request inflight[i] is answered with a body of the given kind.
Respond(i, kind) ==
  LET r == inflight[i]
      s == [Cur EXCEPT !.inflight = RemoveAt(@, i)]
  IN  /\ IF kind = "ok" THEN UNCHANGED faults
         ELSE faults < MaxFaults /\ faults' = faults + 1
      /\ UNCHANGED userEvents
      /\ Commit(RunCont(ResponseThen(s, r, kind), r.cont))

\* The request inflight[i] fails: network error, or a body that is not JSON.
Fail(i) ==
  LET r == inflight[i]
      s == [Cur EXCEPT !.inflight = RemoveAt(@, i)]
  IN  /\ faults < MaxFaults /\ faults' = faults + 1
      /\ UNCHANGED userEvents
      /\ Commit(RunCont(FetchCatch(s), r.cont))

\* TickMs of time pass.
Tick ==
  /\ searchElapsed < ElapsedCap \/ roSearchElapsed < ElapsedCap
  /\ searchElapsed' = Min(ElapsedCap, searchElapsed + TickMs)
  /\ roSearchElapsed' = Min(ElapsedCap, roSearchElapsed + TickMs)
  /\ UNCHANGED <<tableVars, listVars, quizVars, userEvents, faults>>

\* #role-org-search "input" listener, lines 220-226: restart the timer.
RoSearchInput(v) ==
  /\ v # roSearchValue
  /\ UserEvent
  /\ RoCommit([RoCur EXCEPT !.roSearchValue = v, !.roSearchDebounce = TRUE,
                            !.roSearchElapsed = 0])

\* The timer's callback, lines 222-225, once its delay has passed.
RoSearchTimer_Early ==
  /\ roSearchDebounce
  /\ roSearchElapsed >= TickMs
  /\ UNCHANGED <<userEvents, faults>>
  /\ RoCommit(renderSourceList(
       [RoCur EXCEPT !.roSearchDebounce = FALSE, !.query = roSearchValue]))

RoSearchTimer ==
  /\ roSearchDebounce
  /\ roSearchElapsed >= RO_SEARCH_DEBOUNCE_MS
  /\ UNCHANGED <<userEvents, faults>>
  /\ RoCommit(renderSourceList(
       [RoCur EXCEPT !.roSearchDebounce = FALSE, !.query = roSearchValue]))

\* sourceList "change" listener, lines 228-236: the user toggles the
\* checkbox of the i-th li.
RoCheckboxChange(i) ==
  LET li == sourceList[i]
      s1 == [RoCur EXCEPT !.sourceList[i].checked = ~li.checked]
      s2 == [s1 EXCEPT !.selected = IF ~li.checked THEN @ \cup {li.dataRole}
                                    ELSE @ \ {li.dataRole}]
  IN  /\ UserEvent
      /\ RoCommit(IF li.dataRole = <<>> THEN s1 ELSE updateSelectedMeta(s2, -1))

\* An animation frame runs the appendChunk callbacks requested before it,
\* lines 85-87.
RoAnimationFrame ==
  /\ frames # <<>>
  /\ UNCHANGED <<userEvents, faults>>
  /\ RoCommit(RunFrames([RoCur EXCEPT !.frames = <<>>], frames))

\* fetchPayload's request settles, lines 148-154 and 254-256: with a
\* payload listing the roles, with one whose available_roles is no array,
\* or with a failure.
BootstrapKinds == {"ok", "noRoles", "fail"}

RoBootstrap(kind) ==
  LET s == [RoCur EXCEPT !.bootstrapPending = FALSE]
  IN  /\ bootstrapPending
      /\ IF kind = "ok" THEN UNCHANGED faults
         ELSE faults < MaxFaults /\ faults' = faults + 1
      /\ UNCHANGED userEvents
      /\ RoCommit(CASE kind = "ok" -> applyPayload(s, RolesLeft(serverGroups), serverGroups)
                    [] kind = "noRoles" -> applyPayload(s, <<>>, serverGroups)
                    [] OTHER ->
                         [s EXCEPT !.feedback = "Could not load role consolidation data."])

\* The user edits the target input: no listener runs, and the edits are
\* not counted, the input having three values.
TargetValues == { <<>>, <<" ">>, <<"T">> }

TargetInput(v) ==
  /\ v # targetValue
  /\ UNCHANGED <<userEvents, faults>>
  /\ RoCommit([RoCur EXCEPT !.targetValue = v])

\* A request is sent in the step: a failure to come counts as a fault.
Sends(s, outcome) ==
  IF Len(s.roRequests) > Len(roRequests) /\ outcome # "ok"
  THEN faults < MaxFaults /\ faults' = faults + 1
  ELSE outcome = "ok" /\ UNCHANGED faults

\* consolidateBtn "click" listener, line 252; a disabled button receives
\* no click.
ConsolidateClick(outcome) ==
  LET s == consolidate(RoCur, outcome)
  IN  /\ ~consolidateDisabled
      /\ userEvents < MaxFormEvents /\ userEvents' = userEvents + 1
      /\ Sends(s, outcome)
      /\ RoCommit(s)

\* groupsEl "click" listener, lines 238-250, for a remove button shown.
RemoveButtons ==
  {<<"targetRole", consolidations[i].target>> : i \in 1..Len(consolidations)}
    \cup UNION {{<<"sourceRole", consolidations[i].sources[j]>> :
                   j \in 1..Len(consolidations[i].sources)} :
                 i \in 1..Len(consolidations)}

RemoveClick(body, outcome) ==
  LET s == removeMapping(RoCur, body, outcome)
  IN  /\ userEvents < MaxFormEvents /\ userEvents' = userEvents + 1
      /\ Sends(s, outcome)
      /\ RoCommit(s)

\* The request roRequests[i] settles.
RoSettle(i) ==
  LET r == roRequests[i]
      s == [RoCur EXCEPT !.roRequests = RemoveAt(@, i)]
  IN  /\ UNCHANGED <<userEvents, faults>>
      /\ RoCommit(IF r.kind = "consolidate" THEN consolidateSettled(s, r)
                  ELSE removeMappingSettled(s, r))

\* The game script runs, lines 314-336: the first question is rendered.
GameModes == {"most-role", "higher-count", "top-role"}

GameLoad ==
  /\ ~gameLoaded
  /\ eligibleRoles # {}
  /\ \E q \in buildQuestion(currentMode) :
       QCommit(renderQuestion([QCur EXCEPT !.gameLoaded = TRUE], q))

\* The user clicks the i-th option button, lines 302-304; a disabled button
\* receives no click.
Guess(i) ==
  /\ gameLoaded /\ ~optionsLocked
  /\ attempts < MaxAttempts
  /\ QCommit(handleGuess(QCur, question.options[i].id))

\* nextBtn "click" listener, lines 310-312; a hidden button is not clicked.
NextClick ==
  /\ gameLoaded /\ ~nextHidden
  /\ \E q \in buildQuestion(currentMode) : QCommit(renderQuestion(QCur, q))

\* The user clicks the button of a mode.
ModeClick(mode) ==
  /\ gameLoaded
  /\ \E q \in buildQuestion(mode) : QCommit(modeClick(QCur, mode, q))

\* The quiz game.
QuizNext ==
  \/ GameLoad
  \/ \E i \in DOMAIN question.options : Guess(i)
  \/ NextClick
  \/ \E mode \in GameModes : ModeClick(mode)

QuizSpec == Init /\ [][QuizNext]_vars

\* The people table.
Next ==
  \/ \E v \in InputValues : SearchInput(v)
  \/ SearchTimer
  \/ ActiveOnlyChange
  \/ \E c \in Columns : SortClick(c)
  \/ \E y \in ScrollOffsets(Cur) : Scroll(y)
  \/ AnimationFrame
  \/ \E i \in 1..Len(inflight), kind \in BodyKinds : Respond(i, kind)
  \/ \E i \in 1..Len(inflight) : Fail(i)
  \/ Tick

Spec == Init /\ [][Next]_vars

\* The people table when every request succeeds: each response is
\* well-formed and arrives, each frame requested runs, each timer fires.
RespondOk == \E i \in 1..Len(inflight) : Respond(i, "ok")

LiveNext ==
  \/ \E v \in InputValues : SearchInput(v)
  \/ SearchTimer
  \/ ActiveOnlyChange
  \/ \E c \in Columns : SortClick(c)
  \/ \E y \in ScrollOffsets(Cur) : Scroll(y)
  \/ AnimationFrame
  \/ RespondOk
  \/ Tick

\* Weak fairness of the response, of the animation frame and of the
\* debounce timer, with ENABLED written out: WF_vars(A) is
\* []<>(~ENABLED <<A>>_vars) \/ []<><<A>>_vars, and each of the three is
\* enabled exactly when its request, callback or timer is pending.
LiveSpec ==
  /\ Init
  /\ [][LiveNext]_vars
  /\ []<>(inflight = <<>>) \/ []<><<RespondOk>>_vars
  /\ []<>(rafQueue = 0) \/ []<><<AnimationFrame>>_vars
  /\ []<>(~(searchDebounce /\ searchElapsed >= SEARCH_DEBOUNCE_MS))
       \/ []<><<SearchTimer>>_vars
  /\ WF_vars(Tick)

\* The role-organisation source list.
ListEnds == {1, Len(sourceList)} \cap DOMAIN sourceList

ListNext ==
  \/ \E v \in RoInputValues : RoSearchInput(v)
  \/ RoSearchTimer
  \/ \E i \in ListEnds : RoCheckboxChange(i)
  \/ RoAnimationFrame
  \/ \E kind \in BootstrapKinds : RoBootstrap(kind)
  \/ Tick

ListSpec == Init /\ [][ListNext]_vars

\* The source list when each animation frame requested runs: weak fairness
\* of RoAnimationFrame, which is enabled exactly when a callback waits.
ListLiveSpec ==
  /\ Init
  /\ [][ListNext]_vars
  /\ []<>(frames = <<>>) \/ []<><<RoAnimationFrame>>_vars
  /\ WF_vars(Tick)

\* The consolidation form, with the source list it submits.  The user acts
\* on a list that is complete: the frames of a render take a few tens of
\* milliseconds.
UserActs ==
  \/ \E i \in ListEnds : RoCheckboxChange(i)
  \/ \E v \in TargetValues : TargetInput(v)
  \/ \E outcome \in Outcomes : ConsolidateClick(outcome)
  \/ \E body \in RemoveButtons, outcome \in Outcomes : RemoveClick(body, outcome)

ConsolidateNext ==
  \/ \E kind \in BootstrapKinds : RoBootstrap(kind)
  \/ RoAnimationFrame
  \/ \E i \in 1..Len(roRequests) : RoSettle(i)
  \/ frames = <<>> /\ UserActs

\* The people table plays no part in it: one of its initial states is taken.
FormInit == Init /\ simpleScroll /\ totalCount = TotalAll

ConsolidateSpec == FormInit /\ [][ConsolidateNext]_vars

\* The two search inputs, with the requests and frames they cause.
SearchNext ==
  \/ \E v \in InputValues : SearchInput(v)
  \/ SearchTimer
  \/ \E i \in 1..Len(inflight) : Respond(i, "ok")
  \/ \E v \in RoInputValues : RoSearchInput(v)
  \/ RoSearchTimer
  \/ RoAnimationFrame
  \/ RoBootstrap("ok")
  \/ Tick

SearchSpec == Init /\ [][SearchNext]_vars


(***************************************************************************)
(* Vocabulary of the properties.                                           *)
(***************************************************************************)
CurrentQuery ==
  [search |-> currentSearch, active |-> currentActiveOnly, col |-> sortCol, dir |-> sortDir]

Queries == [search : {<<>>, Bob}, active : BOOLEAN, col : Columns, dir : {"asc", "desc"}]

\* The record rec is one the server returns for query q.
FromQuery(rec, q) == rec \div 1000 = QueryId(q)

\* The first n records of the server's result for q.
PrefixOf(q, n) == [k \in 1..n |-> ServerRecord(q, k)]

\* The page a range demand would request now (lines 385 and 473).
NextPage == (Len(allLoaded) \div PER_PAGE) + 1

Row120Offset == HeaderHeight + 120 * ROW_HEIGHT

(***************************************************************************)
(* C1  Single-flight: in every reachable state at most one page request is  *)
(* outstanding, and the in-flight flag is set exactly while one is;         *)
(* whatever calls are made meanwhile, no second request is sent.            *)
(***************************************************************************)
C1_SingleFlight ==
  /\ Len(inflight) <= 1
  /\ fetchInFlight <=> (Len(inflight) = 1)

\* A request is outstanding and a reload was called meanwhile: the query has
\* changed under the request, and no second request was sent.
C1_Witness ==
  /\ Len(inflight) = 1
  /\ QueryOf(inflight[1]) # CurrentQuery
  /\ userEvents >= 2

(***************************************************************************)
(* C2  Epoch isolation: a response whose request was made under a query     *)
(* other than the current one is discarded: allLoaded and totalCount stay   *)
(* as they are, and no row of the old query is newly rendered.              *)
(***************************************************************************)
C2_EpochIsolation ==
  [][\A i \in 1..Len(inflight), kind \in BodyKinds :
       (QueryOf(inflight[i]) # CurrentQuery /\ Respond(i, kind))
         => /\ allLoaded' = allLoaded
            /\ totalCount' = totalCount
            /\ \A k \in 1..Len(rows') :
                 FromQuery(rows'[k], QueryOf(inflight[i]))
                   => \E j \in 1..Len(rows) : rows[j] = rows'[k]]_vars

(***************************************************************************)
(* C3  When the query changed while a fetch of the old query was in flight, *)
(* then once every request has settled successfully the loaded prefix and   *)
(* the rendered rows hold only records of the current query.               *)
(***************************************************************************)
C3_OnlyNewQueryRows ==
  (inflight = <<>> /\ faults = 0 /\ ~searchDebounce /\ ~rafId)
    => /\ \A k \in 1..Len(allLoaded) : FromQuery(allLoaded[k], CurrentQuery)
       /\ \A k \in 1..Len(rows) : FromQuery(rows[k], CurrentQuery)

C5_QueryChangeFetches ==
  [][CurrentQuery' # CurrentQuery
       => \E i \in 1..Len(inflight') :
            /\ inflight'[i].page = 1
            /\ QueryOf(inflight'[i]) = CurrentQuery']_vars

(***************************************************************************)
(* C6  Window clamp: for total > 0 the window renderVirtual computes is     *)
(* never empty, at most VISIBLE_ROWS long and within 0..total: for the      *)
(* window last computed, and for every probe offset (below the header,      *)
(* around each row boundary, past the last row) at the current total.       *)
(***************************************************************************)
ProbeRows == {0, 1, 59, 60, 119, 120, 249, 250, 1000}
ProbeOffsets ==
  {0} \cup {HeaderHeight + r * ROW_HEIGHT + d : r \in ProbeRows, d \in {-1, 0, 39}}

WindowClamped(w, total) ==
  /\ 0 <= w.visibleStart
  /\ w.visibleEnd > w.visibleStart
  /\ w.visibleEnd - w.visibleStart <= VISIBLE_ROWS
  /\ w.visibleEnd <= total

C6_WindowClamp ==
  /\ (~simpleScroll /\ totalCount > 0 /\ lastVisibleStart # -1)
       => WindowClamped([visibleStart |-> lastVisibleStart,
                         visibleEnd |-> lastVisibleEnd], totalCount)
  /\ totalCount > 0
       => \A y \in ProbeOffsets \cup {scrollTop} :
            WindowClamped(Window(y, HeaderHeight, totalCount), totalCount)

\* The window was computed with the scroll offset past the last row.
C6_Witness ==
  /\ ~simpleScroll
  /\ totalCount > 0
  /\ lastVisibleStart # -1
  /\ scrollTop - theadHeight >= totalCount * ROW_HEIGHT
  /\ lastVisibleStart = Max(0, totalCount - VISIBLE_ROWS)


(***************************************************************************)
(* C7  The scenario total = 250, page size 100, row height 40, budget 60,   *)
(* only page 1 loaded, scrolled to row 120, in virtual mode.                *)
(* As amended: the recomputation yields the window 120..180 and sends the   *)
(* request for page 2; when page 2 has settled, rows 120..179 are rendered  *)
(* from the 200 loaded records and NO request for page 3 is sent.           *)
(***************************************************************************)
C7_ScrollPre ==
  /\ ~simpleScroll
  /\ totalCount = 250
  /\ scrollTop = theadHeight + 120 * ROW_HEIGHT
  /\ allLoaded = PrefixOf(CurrentQuery, PER_PAGE)
  /\ inflight = <<>>

C7_ScrollPost ==
  /\ lastVisibleStart = 120
  /\ lastVisibleEnd = 180
  /\ Len(inflight) = 1
  /\ inflight[1].page = 2
  /\ inflight[1].append
  /\ QueryOf(inflight[1]) = CurrentQuery
  /\ inflight[1].cont.kind = "virtual"
  /\ inflight[1].cont.visibleStart = 120
  /\ inflight[1].cont.visibleEnd = 180

C7_SettlePre ==
  /\ ~simpleScroll
  /\ totalCount = 250
  /\ scrollTop = theadHeight + 120 * ROW_HEIGHT
  /\ allLoaded = PrefixOf(CurrentQuery, PER_PAGE)
  /\ C7_ScrollPost

C7_Row120FetchesPage2Only ==
  [][/\ (C7_ScrollPre /\ AnimationFrame) => C7_ScrollPost'
     /\ (C7_SettlePre /\ Respond(1, "ok"))
          => /\ inflight' = <<>>
             /\ allLoaded' = PrefixOf(CurrentQuery, 2 * PER_PAGE)
             /\ lastVisibleStart' = 120 /\ lastVisibleEnd' = 180
             /\ rows' = SubSeq(allLoaded', 121, 180)]_vars

\* The scenario has run: pages 1 and 2 are loaded, nothing is outstanding and
\* the window 120..180 is rendered.
C7_Witness ==
  /\ ~simpleScroll
  /\ totalCount = 250
  /\ scrollTop = theadHeight + 120 * ROW_HEIGHT
  /\ lastVisibleStart = 120 /\ lastVisibleEnd = 180
  /\ allLoaded = PrefixOf(CurrentQuery, 2 * PER_PAGE)
  /\ rows = SubSeq(allLoaded, 121, 180)
  /\ inflight = <<>>
  /\ faults = 0

\* C7 as stated: the settlement of page 2 is followed by the request for
\* page 3.
C7_Row120FetchesPage2Then3 ==
  [][/\ (C7_ScrollPre /\ AnimationFrame) => C7_ScrollPost'
     /\ (C7_SettlePre /\ Respond(1, "ok"))
          => /\ Len(inflight') = 1
             /\ inflight'[1].page = 3]_vars

(***************************************************************************)
(* C8  When total is 0 (and no response was malformed or failed) no data    *)
(* row is displayed, both spacers have no height and no range demand has    *)
(* a request outstanding: in simple and in virtual mode.                    *)
(***************************************************************************)
C8_EmptyTotal ==
  (totalCount = 0 /\ faults = 0)
    => /\ rows = <<>>
       /\ spacerHeight = 0
       /\ ~(bottomSpacer.shown /\ bottomSpacer.height > 0)
       /\ \A i \in 1..Len(inflight) : ~inflight[i].append

(***************************************************************************)
(* C9  A failed request leaves allLoaded and totalCount as they were,       *)
(* clears the in-flight flag (a request outstanding afterwards is the       *)
(* retry), and the next demand asks for the same page number again.         *)
(***************************************************************************)
C9_FailureRetry ==
  [][\A i \in 1..Len(inflight) :
       Fail(i)
         => /\ allLoaded' = allLoaded
            /\ totalCount' = totalCount
            /\ fetchInFlight' => (Len(inflight') = 1 /\ inflight'[1].page = inflight[i].page)
            /\ NextPage' = inflight[i].page]_vars

(***************************************************************************)
(* C10 A body that lacks the people list and/or the total (or is null) is   *)
(* handled as a failed fetch: allLoaded and totalCount stay as they were    *)
(* (total is not set to the loaded length or 0, the prefix is not cleared). *)
(***************************************************************************)
C10_MalformedIsFailure ==
  [][\A i \in 1..Len(inflight), kind \in BodyKinds \ {"ok"} :
       Respond(i, kind)
         => /\ allLoaded' = allLoaded
            /\ totalCount' = totalCount]_vars

(***************************************************************************)
(* C11  Search debounce.  On each surface an edit restarts the quiet        *)
(* window, and the value is applied only by the timer, once, after the      *)
(* last edit of a burst and with the input's last value.  Window(people) is *)
(* the window of the people table and Window(list) that of the source list. *)
(***************************************************************************)
\* The search texts of the requests that a step sends.
SentSearches ==
  {inflight'[i].search : i \in {j \in 1..Len(inflight') :
                                  \A k \in 1..Len(inflight) : inflight[k] # inflight'[j]}}

Debounced(peopleWindow, listWindow) ==
  \* an edit within the window of the previous one finds its timer pending:
  \* the previous value was not applied
  /\ (searchValue' # searchValue /\ searchElapsed < peopleWindow) => searchDebounce
  /\ (roSearchValue' # roSearchValue /\ roSearchElapsed < listWindow) => roSearchDebounce
  \* only the timer changes the search applied; it takes the input's value
  \* and leaves no timer pending
  /\ (currentSearch' # currentSearch \/ (searchDebounce /\ ~searchDebounce'))
       => /\ searchDebounce /\ ~searchDebounce'
          /\ searchValue' = searchValue
          /\ currentSearch' = Trim(searchValue)
  /\ (query' # query \/ (roSearchDebounce /\ ~roSearchDebounce'))
       => /\ roSearchDebounce /\ ~roSearchDebounce'
          /\ roSearchValue' = roSearchValue
          /\ query' = roSearchValue
  \* a request is sent for the search applied, never for another value
  /\ SentSearches \subseteq {currentSearch'}

\* C11 as amended: the quiet window is 180 ms on the people table and
\* 120 ms on the role-organisation list; within a burst whose edits follow
\* each other within the surface's window no value is applied, and the one
\* query change after it uses the last value.
C11_Debounce ==
  [][Debounced(SEARCH_DEBOUNCE_MS, RO_SEARCH_DEBOUNCE_MS)]_vars

\* Two edits of the role search, "a" then "B ", have caused one render
\* (the second after the bootstrap's), for "B ".
C11_Witness ==
  /\ userEvents = 2 /\ searchValue = <<>>
  /\ roSearchValue = <<"B", " ">> /\ query = <<"B", " ">>
  /\ ~roSearchDebounce /\ ~bootstrapPending /\ renderToken = 2

\* C11 as stated: the quiet window is 180 ms on both surfaces.
C11_DebounceWithin180 ==
  [][Debounced(SEARCH_DEBOUNCE_MS, SEARCH_DEBOUNCE_MS)]_vars

(***************************************************************************)
(* C12  Scroll throttling (virtual mode).  At most one recomputation of the *)
(* window is pending at any time; a scroll event recomputes nothing itself  *)
(* and leaves exactly one callback requested, replacing the one pending;    *)
(* the animation frame runs it once, for the scroll offset of that moment.  *)
(***************************************************************************)
C12_ScrollThrottle ==
  [][/\ rafQueue' <= 1
     /\ rafId' <=> (rafQueue' = 1)
     /\ \A y \in ScrollOffsets(Cur) :
          (Scroll(y) /\ ~simpleScroll)
            => /\ rafQueue' = 1
               /\ UNCHANGED <<lastVisibleStart, lastVisibleEnd, rows, spacerHeight,
                              bottomSpacer, allLoaded, inflight, fetchInFlight>>
     /\ AnimationFrame
          => /\ rafQueue' = 0
             /\ totalCount > 0
                  => LET w == Window(scrollTop, theadHeight', totalCount)
                     IN  /\ lastVisibleStart' = w.visibleStart
                         /\ lastVisibleEnd' = w.visibleEnd
                         /\ spacerHeight' = w.topHeight]_vars

\* Two scroll events, to row 120 and back to the top, within one refresh:
\* one callback is pending and the window of row 120 was never computed.
C12_Witness ==
  /\ ~simpleScroll /\ userEvents = 2
  /\ rafId /\ rafQueue = 1 /\ scrollTop = 0
  /\ lastVisibleStart = 0 /\ Len(allLoaded) = PER_PAGE /\ inflight = <<>>

(***************************************************************************)
(* C13  Chunked population is guarded by the render token.  In every state  *)
(* the names of the option list are a duplicate-free in-order prefix of the *)
(* filtered list of the most recent renderSourceList call (the roles and    *)
(* the search text change only where it is called), and an animation frame  *)
(* whose continuations all captured an older token appends nothing.         *)
(***************************************************************************)
ListNames == [i \in 1..Len(sourceList) |-> sourceList[i].role]

ListIsPrefix ==
  LET f == Filtered(roleOptions, query)
      names == ListNames
  IN  /\ Len(names) <= Len(f)
      /\ names = SubSeq(f, 1, Len(names))
      /\ Cardinality({names[i] : i \in 1..Len(names)}) = Len(names)

C13_EpochGuard ==
  /\ []ListIsPrefix
  /\ [][(RoAnimationFrame /\ \A i \in 1..Len(frames) : frames[i].token # renderToken)
          => (sourceList' = sourceList /\ frames' = <<>>)]_vars

\* The bootstrap's render (token 1) left a continuation pending; the search
\* for "a" rendered again (token 2) and its first chunk is in the list.
C13_Witness ==
  /\ renderToken = 2 /\ query = <<"a">>
  /\ Len(frames) = 2 /\ frames[1].token = 1 /\ frames[2].token = 2
  /\ Len(sourceList) = SOURCE_RENDER_CHUNK

(***************************************************************************)
(* C14  No failure of a page request propagates.  Settles(i) is the         *)
(* settlement of request i: a failure (network error or a body that is not  *)
(* JSON) or a response of any kind (a null body makes the handler throw).   *)
(***************************************************************************)
Settles(i) == Fail(i) \/ \E kind \in BodyKinds : Respond(i, kind)

\* C14 as amended: at every settlement the promise fetchPage returned
\* fulfils, so the caller's continuation runs (that of a reload resets the
\* scroll offset, that of simple mode loads on near the bottom); the
\* loading indicator is hidden; the in-flight flag is false unless the
\* settlement has itself sent the next request, an appending one, which is
\* then the only request outstanding.
C14_SettlementClears ==
  [][\A i \in 1..Len(inflight) :
       Settles(i)
         => /\ ~loadingShown'
            /\ fetchInFlight' <=> (inflight' # <<>>)
            /\ fetchInFlight' => (Len(inflight') = 1 /\ inflight'[1].append)
            /\ inflight[i].cont.kind = "reload" => scrollTop' = 0
            /\ (/\ simpleScroll
                /\ inflight[i].cont.kind \in {"initial", "loadMore", "reload"}
                /\ Len(allLoaded') < totalCount'
                /\ scrollTop' + ClientHeight >= ScrollHeight(Cur)' - thresholdPx)
                 => fetchInFlight']_vars

\* The first request failed in simple mode; the continuation chained on
\* its promise ran and sent the request again.
C14_Witness ==
  /\ simpleScroll /\ faults = 1 /\ allLoaded = <<>>
  /\ ~loadingShown /\ fetchInFlight
  /\ Len(inflight) = 1 /\ inflight[1].append /\ inflight[1].cont.kind = "loadMore"

\* C14 as stated: after every settlement the in-flight flag is false and
\* the loading indicator is hidden.
C14_FlagFalseAfterSettlement ==
  [][\A i \in 1..Len(inflight) :
       Settles(i) => (~fetchInFlight' /\ ~loadingShown')]_vars

(***************************************************************************)
(* C15  Sort-header activation.  A click on the active column flips the     *)
(* direction and keeps the column; a click on another column selects it     *)
(* with direction asc for a string column and desc otherwise; and every     *)
(* click reloads: a replacing page-1 request for the new query is sent.     *)
(***************************************************************************)
SortRule(c) ==
  IF c = sortCol
  THEN /\ sortCol' = sortCol
       /\ sortDir' # sortDir
       /\ sortDir' \in {"asc", "desc"}
  ELSE /\ sortCol' = c
       /\ sortDir' = IF ColumnType(c) = "string" THEN "asc" ELSE "desc"

SortReloads ==
  \E i \in 1..Len(inflight') :
    /\ inflight'[i].page = 1
    /\ ~inflight'[i].append
    /\ QueryOf(inflight'[i]) = CurrentQuery'

C15_SortClick ==
  [][\A c \in Columns : SortClick(c) => (SortRule(c) /\ SortReloads)]_vars

(***************************************************************************)
(* C16  On a query change the loaded prefix is cleared before the first     *)
(* fetch for the new query is issued: when a step changes the query and     *)
(* sends the page-1 request of the new query, the prefix is empty once the  *)
(* request is out.                                                          *)
(***************************************************************************)
C16_ClearBeforeFetch ==
  [][(CurrentQuery' # CurrentQuery /\ SortReloads) => allLoaded' = <<>>]_vars

(***************************************************************************)
(* C17  In every reachable state the loaded prefix is no longer than the    *)
(* total: Len(allLoaded) <= totalCount.                                     *)
(***************************************************************************)
C17_LoadedWithinTotal == Len(allLoaded) <= totalCount

(***************************************************************************)
(* C18  ensureDataForRange(start, end) changes nothing and sends nothing    *)
(* when min(end+1, total) <= Len(allLoaded) or total = 0 (checked in every  *)
(* reachable state for the ranges of the probe rows); and a step sends an   *)
(* appending page request, the kind ensureDataForRange and                  *)
(* maybeLoadMoreSimple send, only while Len(allLoaded) < totalCount.        *)
(***************************************************************************)
ProbeRanges ==
  {<<a, b>> \in ProbeRows \X ProbeRows : a <= b /\ b <= a + VISIBLE_ROWS}

EnsureIsNoOpWhenCovered ==
  \A rg \in ProbeRanges :
    (Min(rg[2] + 1, totalCount) <= Len(allLoaded) \/ totalCount = 0)
      => ensureDataForRange(Cur, rg[1], rg[2], Cont("virtual")) = Cur

\* The step sends a request: one is outstanding afterwards that was not
\* before, or that replaces the one settled in the step.
SendsRequest ==
  /\ inflight' # <<>>
  /\ inflight = <<>> \/ Settles(1)

C18_NoFetchWhenCovered ==
  /\ []EnsureIsNoOpWhenCovered
  /\ [][(SendsRequest /\ inflight'[1].append)
          => Len(allLoaded') < totalCount']_vars

\* Simple mode, all records matching "bob" loaded, the user at the bottom:
\* maybeLoadMoreSimple was called there and sent nothing.
C18_Witness ==
  /\ simpleScroll /\ currentSearch = Bob
  /\ Len(allLoaded) = TotalBob /\ totalCount = TotalBob
  /\ scrollTop > 0 /\ scrollTop = MaxScrollTop(Cur)
  /\ inflight = <<>> /\ ~fetchInFlight

(***************************************************************************)
(* C19  Virtual mode renders exactly the visible slice: when every request *)
(* has been answered with a well-formed page, none is outstanding and no    *)
(* recomputation is pending, the rows are the loaded records of the window  *)
(* of the current scroll offset, and both spacers have the heights of that  *)
(* window.                                                                  *)
(***************************************************************************)
C19_VisibleSlice ==
  (~simpleScroll /\ faults = 0 /\ inflight = <<>> /\ rafQueue = 0 /\ totalCount > 0)
    => LET w == Window(scrollTop, theadHeight, totalCount)
           last == Min(w.visibleEnd, Len(allLoaded))
       IN  /\ rows = IF last > w.visibleStart
                     THEN SubSeq(allLoaded, w.visibleStart + 1, last) ELSE <<>>
           /\ spacerHeight = w.topHeight
           /\ IF w.bottomHeight > 0
              THEN bottomSpacer.shown /\ bottomSpacer.height = w.bottomHeight
              ELSE ~bottomSpacer.shown

(***************************************************************************)
(* C20  Eventual convergence in virtual mode.  When every request succeeds  *)
(* (LiveSpec), from some point on the window of the scroll offset is        *)
(* covered by the loaded prefix and no request is outstanding; it is        *)
(* reached by a chain of sequential fetches: never more than one request    *)
(* is outstanding, and each settlement changes the state (the chain makes   *)
(* progress, it never repeats a request in an unchanged state).             *)
(***************************************************************************)
WindowCovered ==
  totalCount > 0
    => LET thead == IF theadHeight = 0 THEN HeaderHeight ELSE theadHeight
           w == Window(scrollTop, thead, totalCount)
       IN  w.visibleEnd <= Len(allLoaded)

\* What the response to the outstanding request makes of the state.
Settled ==
  RunCont(ResponseThen([Cur EXCEPT !.inflight = <<>>], inflight[1], "ok"),
          inflight[1].cont)

C20_Convergence ==
  /\ [](/\ Len(inflight) <= 1
        /\ inflight # <<>> => Settled # Cur)
  /\ <>[](simpleScroll \/ (inflight = <<>> /\ WindowCovered))

\* One scroll to the bottom of the 250 records: pages 2 and 3 were fetched
\* one after the other, the second at the settlement of the first.
C20_Witness ==
  /\ ~simpleScroll /\ userEvents = 1
  /\ scrollTop > 0 /\ scrollTop = MaxScrollTop(Cur)
  /\ Len(allLoaded) = TotalAll /\ totalCount = TotalAll /\ inflight = <<>>

(***************************************************************************)
(* C21  The simple-mode load-more chain stops.  A settlement sends the next *)
(* page request only when it made progress and more is wanted: the request  *)
(* settled was answered with records (it did not fail, and its page added   *)
(* some), the prefix is still shorter than the total, and the viewport is   *)
(* within 320 px of the bottom.  A settlement that fails or adds no record  *)
(* sends nothing, so the chain cannot repeat a request.                     *)
(***************************************************************************)
NearBottom(s) == s.scrollTop + ClientHeight >= ScrollHeight(s) - thresholdPx

ChainContinues ==
  simpleScroll /\ inflight # <<>> /\ Settles(1) /\ inflight' # <<>>

C21_ChainStops ==
  [][ChainContinues => /\ inflight'[1] # inflight[1]
                       /\ Len(allLoaded') > Len(allLoaded)
                       /\ Len(allLoaded') < totalCount'
                       /\ NearBottom(Cur)']_vars

(***************************************************************************)
(* C22  Simple mode renders the whole prefix: when a request is answered    *)
(* with a well-formed page, the rows are afterwards exactly the loaded      *)
(* prefix, in its order and with no person twice, the top spacer has height *)
(* 0 and is hidden, and there is no bottom spacer.                          *)
(***************************************************************************)
NoDuplicates(seq) == Cardinality({PersonOf(seq[i]) : i \in 1..Len(seq)}) = Len(seq)

RendersPrefix ==
  /\ rows' = allLoaded'
  /\ spacerHeight' = 0 /\ ~spacerShown'
  /\ ~bottomSpacer'.exists

C22_SimpleRendersPrefix ==
  [][(simpleScroll /\ RespondOk)
       => (RendersPrefix /\ NoDuplicates(rows'))]_vars

(***************************************************************************)
(* C23  A query change resets the viewport to the top.  When the page-1     *)
(* response of a query change arrives, the scroll offset is 0 once the step *)
(* is over, and the window the fulfilment handler computes over the rows of *)
(* the new query (renderVirtual at line 371, which records it in            *)
(* lastVisibleStart) is already the window of offset 0.                     *)
(***************************************************************************)
ReloadSettles ==
  inflight # <<>> /\ inflight[1].cont.kind = "reload" /\ Respond(1, "ok")

\* The state the fulfilment handler leaves, before the caller's callback.
Handled == ResponseThen([Cur EXCEPT !.inflight = <<>>], inflight[1], "ok")

C23_ResetToTop ==
  [][ReloadSettles
       => /\ scrollTop' = 0
          /\ (~simpleScroll /\ Handled.totalCount > 0)
               => Handled.lastVisibleStart = 0]_vars

(***************************************************************************)
(* C24  Window geometry.  For every total > 0, header height and scroll     *)
(* offset probed, the window starts at floor(max(0, offset - header) / 40)  *)
(* when that row exists and at max(0, total - 60) otherwise, the top spacer *)
(* is visibleStart * 40, the bottom spacer max(0, (total - visibleEnd) *    *)
(* 40), and spacers and rows add up to total * 40.  In virtual mode the top *)
(* spacer displayed is the one of the window last computed.                 *)
(***************************************************************************)
ProbeTotals == {1, VISIBLE_ROWS, VISIBLE_ROWS + 1, TotalAll}
ProbeHeaders == {0, HeaderHeight}
ProbeScrolls ==
  {0, HeaderHeight - 1, HeaderHeight + ROW_HEIGHT - 1,
   HeaderHeight + VISIBLE_ROWS * ROW_HEIGHT, HeaderHeight + TotalAll * ROW_HEIGHT - 1,
   HeaderHeight + TotalAll * ROW_HEIGHT, HeaderHeight + 1000 * ROW_HEIGHT}

Geometry(w, y, thead, total) ==
  LET raw == Max(0, y - thead) \div ROW_HEIGHT
  IN  /\ w.visibleStart = IF raw < total THEN raw ELSE Max(0, total - VISIBLE_ROWS)
      /\ w.topHeight = w.visibleStart * ROW_HEIGHT
      /\ w.bottomHeight = Max(0, (total - w.visibleEnd) * ROW_HEIGHT)
      /\ w.topHeight + (w.visibleEnd - w.visibleStart) * ROW_HEIGHT + w.bottomHeight
           = total * ROW_HEIGHT

C24_WindowGeometry ==
  /\ \A total \in ProbeTotals \cup ({totalCount} \ {0}), thead \in ProbeHeaders,
        y \in ProbeScrolls \cup {scrollTop} :
       Geometry(Window(y, thead, total), y, thead, total)
  /\ (~simpleScroll /\ lastVisibleStart # -1)
       => /\ spacerHeight = lastVisibleStart * ROW_HEIGHT
          /\ spacerShown = (spacerHeight > 0)

\* The window of row 120 was computed and its top spacer is displayed.
C24_Witness ==
  /\ ~simpleScroll /\ totalCount = TotalAll
  /\ scrollTop = Row120Offset
  /\ lastVisibleStart = 120 /\ lastVisibleEnd = 180
  /\ spacerHeight = 120 * ROW_HEIGHT /\ spacerShown

(***************************************************************************)
(* C25  Chunked population completes.  No step appends more than            *)
(* SOURCE_RENDER_CHUNK items.  The current render has at most one           *)
(* continuation waiting for a frame, which resumes where the list ends and  *)
(* before the end of the filtered list; when none waits, the list is the    *)
(* whole filtered list, in order.  When each frame requested runs           *)
(* (ListLiveSpec), from some point on nothing waits, so the list is         *)
(* complete.                                                                *)
(***************************************************************************)
CurrentFrames == SelectSeq(frames, LAMBDA f : f.token = renderToken)

JobOnTrack ==
  LET f == Filtered(roleOptions, query)
      cur == CurrentFrames
  IN  /\ Len(cur) <= 1
      /\ Len(cur) = 1 => /\ cur[1].startIdx = Len(sourceList)
                         /\ cur[1].startIdx < Len(f)
                         /\ cur[1].filtered = f
      /\ Len(cur) = 0 => ListNames = f

C25_ChunksComplete ==
  /\ []JobOnTrack
  /\ [][Len(sourceList') <= Len(sourceList) + SOURCE_RENDER_CHUNK]_vars
  /\ <>[](frames = <<>>)

\* The bootstrap's render alone filled the list: 220, 220 and the rest.
C25_Witness ==
  /\ renderToken = 1 /\ roleOptions = AvailableRoles
  /\ Len(sourceList) = RoleCount /\ RoleCount > 2 * SOURCE_RENDER_CHUNK
  /\ frames = <<>>

(***************************************************************************)
(* C26  The render epoch increases on every query change.  renderToken is   *)
(* the only epoch the program keeps.  Each step that applies a search text, *)
(* the active-only filter, a sort change or a payload leaves it strictly    *)
(* greater than before, and no step ever decreases it.                      *)
(***************************************************************************)
PeopleQueryChange == SearchTimer \/ ActiveOnlyChange \/ \E c \in Columns : SortClick(c)

ListQueryChange == RoSearchTimer \/ RoBootstrap("ok") \/ RoBootstrap("noRoles")

C26_EpochIncrements ==
  [][/\ renderToken' >= renderToken
     /\ (PeopleQueryChange \/ ListQueryChange) => renderToken' > renderToken]_vars

(***************************************************************************)
(* C27  Idempotent geometry.  In virtual mode, for the current scroll       *)
(* offset and each probed offset the container can be scrolled to, a second *)
(* renderVirtual pass computes the window and the top spacer of the first,  *)
(* sends nothing, and leaves the rows and the bottom spacer as the first    *)
(* pass left them.                                                          *)
(***************************************************************************)
ReachableScrolls == {y \in ProbeScrolls : y <= MaxScrollTop(Cur)} \cup {scrollTop}

SameGeometry(once, twice) ==
  /\ twice.lastVisibleStart = once.lastVisibleStart
  /\ twice.lastVisibleEnd = once.lastVisibleEnd
  /\ twice.spacerHeight = once.spacerHeight
  /\ twice.spacerShown = once.spacerShown
  /\ twice.inflight = once.inflight

C27_SecondPassIdle ==
  ~simpleScroll =>
    \A y \in ReachableScrolls :
      LET once  == renderVirtual([Cur EXCEPT !.scrollTop = y])
          twice == renderVirtual(once)
      IN  /\ SameGeometry(once, twice)
          /\ twice.rows = once.rows
          /\ twice.bottomSpacer = once.bottomSpacer

\* As amended: the second pass changes the rows only after a first pass that
\* sent the request for a partly loaded window and left the rows to the
\* request's callback; the second pass then renders the loaded part.
PartlyLoaded(s) ==
  s.lastVisibleStart < Len(s.allLoaded) /\ Len(s.allLoaded) < s.lastVisibleEnd

C27_SecondPass ==
  ~simpleScroll =>
    \A y \in ReachableScrolls :
      LET s     == [Cur EXCEPT !.scrollTop = y]
          once  == renderVirtual(s)
          twice == renderVirtual(once)
      IN  /\ SameGeometry(once, twice)
          /\ IF once.inflight # s.inflight /\ PartlyLoaded(once)
             THEN /\ once.rows = s.rows
                  /\ twice.rows = SubSeq(s.allLoaded, once.lastVisibleStart + 1,
                                         Len(s.allLoaded))
             ELSE /\ twice.rows = once.rows
                  /\ twice.bottomSpacer = once.bottomSpacer

\* Virtual mode, page 1 of 250 loaded: scrolled to row 60, the first pass
\* requests page 2 for the window 60..120 and the second renders rows 60..99.
C27_Witness ==
  /\ ~simpleScroll /\ inflight = <<>> /\ ~fetchInFlight
  /\ Len(allLoaded) = PER_PAGE /\ totalCount = TotalAll
  /\ HeaderHeight + VISIBLE_ROWS * ROW_HEIGHT \in ReachableScrolls
  /\ LET once == renderVirtual([Cur EXCEPT !.scrollTop =
                                  HeaderHeight + VISIBLE_ROWS * ROW_HEIGHT])
     IN  /\ Len(once.inflight) = 1 /\ PartlyLoaded(once)
         /\ Len(renderVirtual(once).rows) = PER_PAGE - VISIBLE_ROWS

(***************************************************************************)
(* C28  Quiz score.  In every state 0 <= score <= attempts, and a click on  *)
(* the button of the current mode would change nothing.  A guess adds 1 to  *)
(* attempts, and 1 to score exactly when the option chosen is the one       *)
(* marked correct; a step that changes the mode sets both to 0; a step that *)
(* shows a question in the same mode (a Next click, the first question)     *)
(* changes neither.                                                         *)
(***************************************************************************)
ReselectIsNoOp ==
  \A q \in buildQuestion(currentMode) : modeClick(QCur, currentMode, q) = QCur

C28_Score ==
  /\ [](0 <= score /\ score <= attempts /\ ReselectIsNoOp)
  /\ [][/\ \A i \in DOMAIN question.options :
             Guess(i) => /\ attempts' = attempts + 1
                         /\ score' = score + (IF question.options[i].isCorrect
                                              THEN 1 ELSE 0)
        /\ currentMode' # currentMode => (score' = 0 /\ attempts' = 0)
        /\ (currentMode' = currentMode /\ nextHidden')
             => (score' = score /\ attempts' = attempts)]_vars

\* Two of three guesses were right, in a mode other than the first.
C28_Witness ==
  /\ currentMode = "top-role" /\ score = 2 /\ attempts = 3

(***************************************************************************)
(* C29  A rendered question accepts at most one guess.  A guess is made     *)
(* only while the option buttons are enabled; it disables them, keeps the   *)
(* question and shows the Next button.  Disabled buttons are enabled again  *)
(* only by a step that renders a question, and such a step hides the Next   *)
(* button; so attempts grows by at most 1 between two renderings, and while *)
(* the buttons of a rendered question are enabled the Next button is        *)
(* hidden.                                                                  *)
(***************************************************************************)
Renders == GameLoad \/ NextClick \/ \E mode \in GameModes \ {currentMode} : ModeClick(mode)

C29_OneGuessPerQuestion ==
  /\ []((gameLoaded /\ ~optionsLocked) => nextHidden)
  /\ [][/\ attempts' > attempts
             => /\ attempts' = attempts + 1
                /\ ~optionsLocked /\ optionsLocked'
                /\ question' = question
                /\ ~nextHidden'
        /\ (optionsLocked /\ ~optionsLocked') => Renders
        /\ (~nextHidden' \/ optionsLocked') => ~Renders
        /\ (nextHidden /\ ~nextHidden') => attempts' = attempts + 1]_vars

\* A guess has been made on the second question of the session: its buttons
\* are disabled and the Next button is shown.
C29_Witness ==
  /\ gameLoaded /\ optionsLocked /\ ~nextHidden
  /\ attempts = 2 /\ question # NoQuestion

(***************************************************************************)
(* C30  The generators return well-formed questions or null.  Every         *)
(* question a generator can return, and so the question of every state, is  *)
(* null or has exactly one option marked correct, whose count is strictly   *)
(* greater than that of every other option offered: the count in the role   *)
(* of the title for the two people modes, the count of the person of the    *)
(* title in the role offered for the top-role mode.  A try can fail in each  *)
(* mode, so null is among the results of each generator.                    *)
(***************************************************************************)
CountOf(q, opt) ==
  IF q.mode = "top-role"
  THEN LET person == CHOOSE p \in {peopleTechStats[pid] : pid \in DOMAIN peopleTechStats} :
                       p.name = q.title
       IN  person.roleCounts[opt.id[2]]
  ELSE (CHOOSE p \in Entries(q.title) : p.pid = opt.id[2]).count

WellFormed(q) ==
  \/ q = NoQuestion
  \/ /\ Len(q.options) = IF q.mode = "higher-count" THEN 2 ELSE 3
     /\ \E i \in DOMAIN q.options :
          /\ q.options[i].isCorrect
          /\ \A j \in DOMAIN q.options \ {i} :
               /\ ~q.options[j].isCorrect
               /\ CountOf(q, q.options[i]) > CountOf(q, q.options[j])

C30_OneCorrectOption ==
  /\ WellFormed(question)
  /\ \A mode \in GameModes :
       /\ \A q \in buildQuestion(mode) : WellFormed(q) /\ q.mode \in {mode, "null"}
       /\ NoQuestion \in buildQuestion(mode)

\* The question shows three people of the role whose two leaders are level:
\* a try that draws them all fails, so the question shown is of another
\* draw; and in the higher-count mode the level pair is never offered.
C30_Witness ==
  /\ question.mode = "most-role" /\ question.title = "Sound"
  /\ \E i \in DOMAIN question.options : question.options[i].id = PidOption("p2")
  /\ \A i \in DOMAIN question.options : question.options[i].id # PidOption("p3")
  /\ optionsLocked

(***************************************************************************)
(* C31  At most one consolidate request is outstanding.  In every state the *)
(* consolidate button is disabled exactly while a consolidate request is    *)
(* outstanding, and there is at most one.  A click with no source role to   *)
(* submit or a blank target sends nothing and leaves the button enabled;    *)
(* any other click sends one request and disables the button; and the       *)
(* settlement of the request, of whatever outcome, enables it again.        *)
(***************************************************************************)
Consolidating == SelectSeq(roRequests, LAMBDA r : r.kind = "consolidate")

C31_OneConsolidate ==
  /\ [](/\ Len(Consolidating) <= 1
        /\ consolidateDisabled <=> Consolidating # <<>>)
  /\ [][/\ \A outcome \in Outcomes :
             (userEvents' # userEvents /\ ConsolidateClick(outcome))
               => IF selectedValues(RoCur) = <<>> \/ Trim(targetValue) = <<>>
                  THEN roRequests' = roRequests /\ ~consolidateDisabled'
                  ELSE /\ roRequests' = Append(roRequests, roRequests'[Len(roRequests')])
                       /\ roRequests'[Len(roRequests')].kind = "consolidate"
                       /\ consolidateDisabled'
        /\ \A i \in 1..Len(roRequests) :
             (roRequests[i].kind = "consolidate" /\ RoSettle(i))
               => ~consolidateDisabled']_vars

\* A consolidate request is outstanding, the button disabled, and the user
\* has clicked a remove button meanwhile.
C31_Witness ==
  /\ consolidateDisabled /\ Len(roRequests) = 2
  /\ roRequests[1].kind = "consolidate" /\ roRequests[2].kind = "remove"

(***************************************************************************)
(* C32  A consolidate request that fails changes nothing but the feedback.  *)
(* At the settlement of a consolidate request whose outcome is a network    *)
(* error or a response with ok false, the selected set, the target input,   *)
(* the role options, the consolidations and the source list are unchanged;  *)
(* at that of a response with ok true, the selection and the target are     *)
(* cleared and the roles and the groups are those of the payload.           *)
(***************************************************************************)
C32_FailureKeepsForm ==
  [][\A i \in 1..Len(roRequests) :
       (roRequests[i].kind = "consolidate" /\ RoSettle(i))
         => IF roRequests[i].outcome = "ok"
            THEN /\ selected' = {} /\ targetValue' = <<>>
                 /\ roleOptions' = RolesLeft(roRequests[i].groups)
                 /\ consolidations' = roRequests[i].groups
                 /\ selectedMeta'[1] = 0
            ELSE /\ UNCHANGED <<selected, targetValue, roleOptions, consolidations,
                               sourceList, selectedMeta, renderToken>>
                 /\ feedback' = "Could not save consolidation."]_vars

\* A consolidate request has failed: the role ticked is still selected and
\* the target still typed, ready to be sent again.
C32_Witness ==
  /\ faults = 1 /\ feedback = "Could not save consolidation."
  /\ selected = {RoleName(1)} /\ targetValue = <<"T">>
  /\ ~consolidateDisabled /\ roRequests = <<>>

(***************************************************************************)
(* C33  The selection stays within the role options.  In every state each   *)
(* selected name is the name of a role of roleOptions, so the number of     *)
(* selected names, which is the count shown, is the number of source roles  *)
(* consolidate would submit; and the re-render of a search leaves the       *)
(* selected set as it was.                                                  *)
(***************************************************************************)
SelectedAreOptions ==
  /\ selected \subseteq {roleOptions[i] : i \in 1..Len(roleOptions)}
  /\ Cardinality(selected) = Len(selectedValues(RoCur))
  /\ selectedMeta # <<>> => selectedMeta[1] = Len(selectedValues(RoCur))

C33_SelectedWithinOptions ==
  /\ []SelectedAreOptions
  /\ [][RoSearchTimer => selected' = selected]_vars

====
